---- MODULE Spec2Model ----
(***************************************************************************)
(* Model of the multi-account request router of zealx:                     *)
(*   src/autox_ai/api_manager_enhanced.py  (EnhancedAPIManager)            *)
(*   src/autox_ai/api_manager.py           (AutoXAIManager)                *)
(*                                                                         *)
(* Units.  Time is in whole seconds.  health_score is kept in hundredths   *)
(* of a point (HealthUnit per point), cooldown_multiplier in thousandths,  *)
(* response times and sleeps in milliseconds.  Divisions round down.       *)
(* An optional value (Python None or a value) is the empty sequence or a   *)
(* one-element sequence.  Account indices are 1..n (Python 0..n-1), and    *)
(* index 0 stands for "no index" (Python None) in the selection scans.     *)
(* The datetime.now() reads made inside one handler are one instant.       *)
(***************************************************************************)
EXTENDS Integers, Sequences, FiniteSets, TLC

\* ---------------------------------------------------------------- bounds
MaxTicks == 1
MaxCalls == 4
MaxEvents == 2
\* Clock steps and calls of the health-probe coroutines.
MaxProbeTicks == 2
MaxProbeCalls == 3
\* Pool sizes: config.py ships three accounts; the smaller pools are the same
\* configuration with fewer entries.
PoolSizes == {1, 2, 3}
\* Pool sizes of the event streams.
EventPoolSizes == {1, 2}

\* ------------------------------------------------------------- constants
RETRY_LIMIT == 3
RATE_LIMIT_COOLDOWN == 15
BACKOFF_BASE == 100
RETRY_AFTER == 60
MIN_HEALTH_FOR_PRIMARY == 50
AUTOX_MIN_HEALTH_FOR_PRIMARY == 70
HEALTH_CHECK_INTERVAL == 60 * 30
MAX_CONSECUTIVE_FAILURES == 5
BLACKLIST_DURATION == 30
HEALTH_RECOVERY_RATE == 2
HEALTH_PENALTY_RATE == 10
HealthUnit == 100
DaySeconds == 24 * 3600

\* Elapsed times the clock may jump by, in seconds: inside every cooldown
\* window (15 min), to the very end of the blacklist (30 min), and past a day
\* of idleness (25 h).
TickSteps == {15 * 60, 30 * 60, 25 * 3600}
\* Response times of a successful call, in ms; 50 ms lies under the 0.1 s floor.
ResponseTimes == {50, 2000}

None == << >>
Some(x) == << x >>
IsSet(o) == o # << >>
Min(a, b) == IF a < b THEN a ELSE b
Max(a, b) == IF a > b THEN a ELSE b

RECURSIVE SumSeq(_)
SumSeq(s) == IF s = << >> THEN 0 ELSE Head(s) + SumSeq(Tail(s))

RECURSIVE Pow2(_)
Pow2(k) == IF k = 0 THEN 1 ELSE 2 * Pow2(k - 1)

ErrorTypes == {"general", "rate_limit", "auth", "api_error", "timeout", "connection", "unknown"}

\* ------------------------------------------------- EnhancedAPIManager
create_default_status ==
    [failures |-> 0,
     consecutive_failures |-> 0,
     rate_limited_until |-> None,
     blacklisted_until |-> None,
     last_success |-> None,
     total_requests |-> 0,
     total_failures |-> 0,
     health_score |-> 100 * HealthUnit,
     cooldown_multiplier |-> 1000,
     last_used |-> None,
     avg_response_time |-> None,
     response_times |-> << >>,
     error_types |-> [e \in ErrorTypes |-> 0],
     last_error |-> "None",
     success_streak |-> 0]

is_account_available(st, i, t) ==
    IF IsSet(st[i].rate_limited_until) /\ st[i].rate_limited_until[1] > t
    THEN FALSE
    ELSE IF IsSet(st[i].blacklisted_until) /\ st[i].blacklisted_until[1] > t
    THEN FALSE
    ELSE TRUE

\* HEALTH_DECAY_RATE ** d for a whole number of days d, in ten-thousandths.
RECURSIVE DecayDays(_)
DecayDays(d) == IF d = 0 THEN 10000 ELSE (DecayDays(d - 1) * 9500) \div 10000

\* HEALTH_DECAY_RATE ** (dt / 86400) in ten-thousandths: exact on whole days,
\* interpolated linearly inside a day (error under 4e-4); 1 for dt = 0.
decay_factor(dt) ==
    (DecayDays(dt \div DaySeconds)
       * (10000 - (500 * (dt % DaySeconds)) \div DaySeconds)) \div 10000

clamp_health(h) == Max(0, Min(100 * HealthUnit, h))

\* Variant of _update_health_score that forgets the clamp to [0, 100].
update_health_score_unclamped(st, i, change, t) ==
    LET decayed == IF IsSet(st[i].last_used)
                   THEN (st[i].health_score * decay_factor(t - st[i].last_used[1])) \div 10000
                   ELSE st[i].health_score
    IN [st EXCEPT ![i].health_score = decayed + change]

\* _update_health_score; change in hundredths of a point.
update_health_score(st, i, change, t) ==
    LET decayed == IF IsSet(st[i].last_used)
                   THEN (st[i].health_score * decay_factor(t - st[i].last_used[1])) \div 10000
                   ELSE st[i].health_score
    IN [st EXCEPT ![i].health_score = clamp_health(decayed + change)]

AvgOf(s) == SumSeq(s) \div Len(s)

RECURSIVE AllAvgTimes(_, _)
AllAvgTimes(st, i) ==
    IF i > Len(st) THEN << >>
    ELSE IF st[i].response_times # << >>
         THEN << AvgOf(st[i].response_times) >> \o AllAvgTimes(st, i + 1)
         ELSE AllAvgTimes(st, i + 1)

\* _calculate_response_time_factor, in thousandths.
calculate_response_time_factor(st, i) ==
    IF st[i].response_times = << >> THEN 1000
    ELSE LET avg_time == AvgOf(st[i].response_times)
             all_avg_times == AllAvgTimes(st, 1)
         IN IF all_avg_times = << >> THEN 1000
            ELSE LET global_avg == AvgOf(all_avg_times)
                 IN IF global_avg = 0 THEN 1000
                    ELSE (global_avg * 1000) \div Max(100, avg_time)

\* Variant of isoformat() that writes the date without the time of day.
isoformat_date_only(o) ==
    IF IsSet(o) THEN Some([iso |-> (o[1] \div DaySeconds) * DaySeconds, valid |-> TRUE])
    ELSE None

\* isoformat() of a timestamp, as written to the health file: a string that
\* datetime.fromisoformat accepts (valid) and the instant it denotes.
isoformat(o) == IF IsSet(o) THEN Some([iso |-> o[1], valid |-> TRUE]) ELSE None

\* The per-account object _save_account_status writes.
serializable_status(s) ==
    [s EXCEPT !.rate_limited_until = isoformat(s.rate_limited_until),
              !.last_success = isoformat(s.last_success),
              !.last_used = isoformat(s.last_used),
              !.blacklisted_until = isoformat(s.blacklisted_until),
              !.response_times = IF Len(s.response_times) > 10
                                 THEN SubSeq(s.response_times, Len(s.response_times) - 9,
                                             Len(s.response_times))
                                 ELSE s.response_times]

\* _save_account_status when nothing fails: the content of the health file
\* after the save, a decodable JSON document with one object per account.
save_account_status(st) ==
    Some([decodable |-> TRUE,
          entries |-> [i \in DOMAIN st |->
                         [present |-> TRUE, object |-> TRUE,
                          status |-> serializable_status(st[i])]]])

\* What can go wrong in a save: nothing, os.makedirs or open() raising (the file
\* is left as it was), or json.dump raising after open() truncated the file.
SaveFaults == {"none", "open", "write"}

\* A file that json.load cannot decode.
UndecodableFile == Some([decodable |-> FALSE, entries |-> << >>])

\* Variant of _save_account_status that converts the status in place and, when
\* the save fails, leaves the in-memory timestamps unset.
save_account_status_call_in_place(st, file, fault) ==
    IF fault = "none"
    THEN [status |-> st, file |-> save_account_status(st), ok |-> TRUE]
    ELSE [status |-> [i \in DOMAIN st |->
                        [st[i] EXCEPT !.rate_limited_until = None, !.last_success = None,
                                      !.last_used = None, !.blacklisted_until = None]],
          file |-> IF fault = "open" THEN file ELSE UndecodableFile,
          ok |-> FALSE]

\* One call of _save_account_status under a fault: the in-memory status (the
\* conversion works on status.copy()), the file and the value returned.
save_account_status_call(st, file, fault) ==
    IF fault = "none"
    THEN [status |-> st, file |-> save_account_status(st), ok |-> TRUE]
    ELSE [status |-> st,
          file |-> IF fault = "open" THEN file ELSE UndecodableFile,
          ok |-> FALSE]

\* datetime.fromisoformat on a stored timestamp; a string it rejects, or a
\* falsy value, leaves the field None.
load_timestamp(o) ==
    IF IsSet(o) /\ o[1].valid THEN Some(o[1].iso) ELSE None

\* Variant of the conversion of one stored object that falls back to the
\* default status when one of its timestamps is no ISO date.
loaded_status_all_or_nothing(s) ==
    IF \E o \in {s.rate_limited_until, s.last_success, s.last_used, s.blacklisted_until} :
          IsSet(o) /\ ~o[1].valid
    THEN create_default_status
    ELSE [s EXCEPT !.rate_limited_until = load_timestamp(s.rate_limited_until),
                   !.last_success = load_timestamp(s.last_success),
                   !.last_used = load_timestamp(s.last_used),
                   !.blacklisted_until = load_timestamp(s.blacklisted_until)]

\* The status _initialize_account_status builds from one stored object.
loaded_status(s) ==
    [s EXCEPT !.rate_limited_until = load_timestamp(s.rate_limited_until),
              !.last_success = load_timestamp(s.last_success),
              !.last_used = load_timestamp(s.last_used),
              !.blacklisted_until = load_timestamp(s.blacklisted_until)]

\* The load raises: the file is not JSON, or the entry of some account is not
\* an object (a number or null, on which the `in` test raises TypeError).
load_raises(file) ==
    \/ ~file[1].decodable
    \/ \E i \in DOMAIN file[1].entries :
          file[1].entries[i].present /\ ~file[1].entries[i].object

\* Variant of _initialize_account_status that stores each account as soon as
\* it is converted, so that a later exception leaves the earlier ones loaded.
initialize_account_status_as_it_goes(file, n) ==
    IF ~IsSet(file) \/ ~file[1].decodable
    THEN [i \in 1 .. n |-> create_default_status]
    ELSE [i \in 1 .. n |->
            IF /\ i \in DOMAIN file[1].entries
               /\ file[1].entries[i].present
               /\ \A j \in 1 .. i : j \in DOMAIN file[1].entries =>
                      (file[1].entries[j].present => file[1].entries[j].object)
            THEN loaded_status(file[1].entries[i].status)
            ELSE create_default_status]

\* _initialize_account_status for n configured accounts.
initialize_account_status(file, n) ==
    IF ~IsSet(file) THEN [i \in 1 .. n |-> create_default_status]
    ELSE IF load_raises(file) THEN [i \in 1 .. n |-> create_default_status]
    ELSE [i \in 1 .. n |->
            IF i \in DOMAIN file[1].entries /\ file[1].entries[i].present
            THEN loaded_status(file[1].entries[i].status)
            ELSE create_default_status]

blacklist_account(st, i, t) ==
    update_health_score(
        [st EXCEPT ![i].blacklisted_until = Some(t + BLACKLIST_DURATION * 60)],
        i, -(50 * HealthUnit), t)

\* Variant of mark_rate_limited that computes the cooldown from the multiplier
\* it had before the increase.
mark_rate_limited_stale_multiplier(st, i, t) ==
    LET cf == st[i].consecutive_failures + 1
        mult == Min(5000, (st[i].cooldown_multiplier * 1500) \div 1000)
        dynamic_cooldown == (RATE_LIMIT_COOLDOWN * 60 * st[i].cooldown_multiplier) \div 1000
        s1 == [st EXCEPT ![i] =
                 [@ EXCEPT !.consecutive_failures = cf,
                           !.cooldown_multiplier = mult,
                           !.rate_limited_until = Some(t + dynamic_cooldown),
                           !.failures = @ + 1,
                           !.total_failures = @ + 1,
                           !.success_streak = 0,
                           !.error_types = [@ EXCEPT !["rate_limit"] = @ + 1],
                           !.last_error = "Rate limit exceeded"]]
        s2 == update_health_score(s1, i, -((HEALTH_PENALTY_RATE * HealthUnit * 3) \div 2), t)
    IN IF cf >= MAX_CONSECUTIVE_FAILURES THEN blacklist_account(s2, i, t) ELSE s2

\* Variant of mark_rate_limited without the cap on the multiplier.
mark_rate_limited_uncapped(st, i, t) ==
    LET cf == st[i].consecutive_failures + 1
        mult == (st[i].cooldown_multiplier * 1500) \div 1000
        dynamic_cooldown == (RATE_LIMIT_COOLDOWN * 60 * mult) \div 1000
        s1 == [st EXCEPT ![i] =
                 [@ EXCEPT !.consecutive_failures = cf,
                           !.cooldown_multiplier = mult,
                           !.rate_limited_until = Some(t + dynamic_cooldown),
                           !.failures = @ + 1,
                           !.total_failures = @ + 1,
                           !.success_streak = 0,
                           !.error_types = [@ EXCEPT !["rate_limit"] = @ + 1],
                           !.last_error = "Rate limit exceeded"]]
        s2 == update_health_score(s1, i, -((HEALTH_PENALTY_RATE * HealthUnit * 3) \div 2), t)
    IN IF cf >= MAX_CONSECUTIVE_FAILURES THEN blacklist_account(s2, i, t) ELSE s2

\* Variant of mark_rate_limited that leaves success_streak as it was.
mark_rate_limited_keeps_streak(st, i, t) ==
    LET cf == st[i].consecutive_failures + 1
        mult == Min(5000, (st[i].cooldown_multiplier * 1500) \div 1000)
        dynamic_cooldown == (RATE_LIMIT_COOLDOWN * 60 * mult) \div 1000
        s1 == [st EXCEPT ![i] =
                 [@ EXCEPT !.consecutive_failures = cf,
                           !.cooldown_multiplier = mult,
                           !.rate_limited_until = Some(t + dynamic_cooldown),
                           !.failures = @ + 1,
                           !.total_failures = @ + 1,
                           !.error_types = [@ EXCEPT !["rate_limit"] = @ + 1],
                           !.last_error = "Rate limit exceeded"]]
        s2 == update_health_score(s1, i, -((HEALTH_PENALTY_RATE * HealthUnit * 3) \div 2), t)
    IN IF cf >= MAX_CONSECUTIVE_FAILURES THEN blacklist_account(s2, i, t) ELSE s2

\* mark_rate_limited with minutes=None; the save it ends with is done by the caller
\* of this operator.
mark_rate_limited(st, i, t) ==
    LET cf == st[i].consecutive_failures + 1
        mult == Min(5000, (st[i].cooldown_multiplier * 1500) \div 1000)
        dynamic_cooldown == (RATE_LIMIT_COOLDOWN * 60 * mult) \div 1000
        s1 == [st EXCEPT ![i] =
                 [@ EXCEPT !.consecutive_failures = cf,
                           !.cooldown_multiplier = mult,
                           !.rate_limited_until = Some(t + dynamic_cooldown),
                           !.failures = @ + 1,
                           !.total_failures = @ + 1,
                           !.success_streak = 0,
                           !.error_types = [@ EXCEPT !["rate_limit"] = @ + 1],
                           !.last_error = "Rate limit exceeded"]]
        s2 == update_health_score(s1, i, -((HEALTH_PENALTY_RATE * HealthUnit * 3) \div 2), t)
    IN IF cf >= MAX_CONSECUTIVE_FAILURES THEN blacklist_account(s2, i, t) ELSE s2

\* Variant of mark_success that leaves the blacklist in place.
mark_success_keeps_blacklist(st, i, rt, t) ==
    LET streak == st[i].success_streak + 1
        times == IF rt # 0 THEN Append(st[i].response_times, rt) ELSE st[i].response_times
        s1 == [st EXCEPT ![i] =
                 [@ EXCEPT !.last_success = Some(t),
                           !.last_used = Some(t),
                           !.failures = 0,
                           !.consecutive_failures = 0,
                           !.total_requests = @ + 1,
                           !.success_streak = streak,
                           !.response_times = times,
                           !.avg_response_time = IF rt # 0 THEN Some(AvgOf(times)) ELSE @,
                           !.cooldown_multiplier = Max(1000, (@ * 800) \div 1000)]]
    IN update_health_score(
           s1, i,
           (HEALTH_RECOVERY_RATE * calculate_response_time_factor(s1, i) * HealthUnit) \div 1000
             + Min(5 * HealthUnit, (streak * HealthUnit) \div 2),
           t)

\* mark_success; rt = 0 stands for a falsy response_time (None or 0).
mark_success(st, i, rt, t) ==
    LET streak == st[i].success_streak + 1
        times0 == IF rt # 0 THEN Append(st[i].response_times, rt) ELSE st[i].response_times
        times == IF Len(times0) > 10 THEN SubSeq(times0, Len(times0) - 9, Len(times0))
                 ELSE times0
        s1 == [st EXCEPT ![i] =
                 [@ EXCEPT !.last_success = Some(t),
                           !.last_used = Some(t),
                           !.failures = 0,
                           !.consecutive_failures = 0,
                           !.total_requests = @ + 1,
                           !.success_streak = streak,
                           !.response_times = times,
                           !.avg_response_time =
                               IF rt # 0 THEN Some(AvgOf(times)) ELSE @,
                           !.cooldown_multiplier = Max(1000, (@ * 800) \div 1000)]]
        response_time_factor == calculate_response_time_factor(s1, i)
        streak_bonus == Min(5 * HealthUnit, (streak * HealthUnit) \div 2)
        health_improvement ==
            (HEALTH_RECOVERY_RATE * response_time_factor * HealthUnit) \div 1000 + streak_bonus
        s2 == update_health_score(s1, i, health_improvement, t)
    IN [s2 EXCEPT ![i].blacklisted_until = None]

mark_success_saves(st, i) ==
    st[i].success_streak % 5 = 0 \/ st[i].health_score >= 95 * HealthUnit

\* Variant of mark_failure that blacklists one failure too late (> for >=).
mark_failure_late_blacklist(st, i, is_rate_limit, error_type, t) ==
    LET cf == st[i].consecutive_failures + 1
        s1 == [st EXCEPT ![i] =
                 [@ EXCEPT !.failures = @ + 1,
                           !.consecutive_failures = cf,
                           !.total_failures = @ + 1,
                           !.last_used = Some(t),
                           !.success_streak = 0,
                           !.error_types = [@ EXCEPT ![error_type] = @ + 1],
                           !.last_error = error_type]]
        penalty == IF error_type = "auth" THEN HEALTH_PENALTY_RATE * 2 ELSE HEALTH_PENALTY_RATE
        s2 == update_health_score(s1, i, -(penalty * HealthUnit), t)
    IN IF is_rate_limit THEN mark_rate_limited(s2, i, t)
       ELSE IF cf > MAX_CONSECUTIVE_FAILURES THEN blacklist_account(s2, i, t)
       ELSE IF cf >= 3
            THEN [s2 EXCEPT ![i].rate_limited_until = Some(t + Min(30, 5 * cf) * 60)]
            ELSE s2

mark_failure(st, i, is_rate_limit, error_type, t) ==
    LET cf == st[i].consecutive_failures + 1
        s1 == [st EXCEPT ![i] =
                 [@ EXCEPT !.failures = @ + 1,
                           !.consecutive_failures = cf,
                           !.total_failures = @ + 1,
                           !.last_used = Some(t),
                           !.success_streak = 0,
                           !.error_types = [@ EXCEPT ![error_type] = @ + 1],
                           !.last_error = error_type]]
        penalty == IF error_type = "auth" THEN HEALTH_PENALTY_RATE * 2 ELSE HEALTH_PENALTY_RATE
        s2 == update_health_score(s1, i, -(penalty * HealthUnit), t)
    IN IF is_rate_limit THEN mark_rate_limited(s2, i, t)
       ELSE IF cf >= MAX_CONSECUTIVE_FAILURES THEN blacklist_account(s2, i, t)
       ELSE IF cf >= 3
            THEN [s2 EXCEPT ![i].rate_limited_until = Some(t + Min(30, 5 * cf) * 60)]
            ELSE s2

\* mark_failure saves when it went through mark_rate_limited or when the
\* account has at least two consecutive failures.
mark_failure_saves(st, i, is_rate_limit) ==
    is_rate_limit \/ st[i].consecutive_failures >= 2

\* Variant of the health check of one account that clears the two windows
\* whether they have elapsed or not.
health_check_account_clears_all(st, i, t) ==
    [st EXCEPT ![i].rate_limited_until = None, ![i].blacklisted_until = None]

\* One account of _run_health_check's loop.
health_check_account(st, i, t) ==
    LET idle == IF IsSet(st[i].last_used) THEN t - st[i].last_used[1] ELSE 0
        s1 == IF IsSet(st[i].last_used) /\ idle > DaySeconds
              THEN update_health_score(
                       st, i, -Min(20 * HealthUnit, (idle * 5 * HealthUnit) \div DaySeconds), t)
              ELSE st
        s2 == IF IsSet(s1[i].rate_limited_until) /\ s1[i].rate_limited_until[1] <= t
              THEN [s1 EXCEPT ![i].rate_limited_until = None] ELSE s1
    IN IF IsSet(s2[i].blacklisted_until) /\ s2[i].blacklisted_until[1] <= t
       THEN [s2 EXCEPT ![i].blacklisted_until = None] ELSE s2

RECURSIVE health_check_loop(_, _, _)
health_check_loop(st, i, t) ==
    IF i > Len(st) THEN st ELSE health_check_loop(health_check_account(st, i, t), i + 1, t)

health_check_due(lhc, t) == ~(t - lhc < HEALTH_CHECK_INTERVAL)

\* _run_health_check: the status map it leaves.
run_health_check(st, lhc, t) ==
    IF health_check_due(lhc, t) THEN health_check_loop(st, 1, t) ELSE st

\* Variant of the strategy 1 scan that does not ask is_account_available.
RECURSIVE best_scan_any(_, _, _, _, _)
best_scan_any(st, t, i, best_score, best_index) ==
    IF i > Len(st) THEN << best_score, best_index >>
    ELSE IF st[i].health_score > best_score
         THEN best_scan_any(st, t, i + 1, st[i].health_score, i)
         ELSE best_scan_any(st, t, i + 1, best_score, best_index)

\* Strategy 1 scan of switch_account: <<best_score, best_index>>.
RECURSIVE best_scan(_, _, _, _, _)
best_scan(st, t, i, best_score, best_index) ==
    IF i > Len(st) THEN << best_score, best_index >>
    ELSE IF is_account_available(st, i, t) /\ st[i].health_score > best_score
         THEN best_scan(st, t, i + 1, st[i].health_score, i)
         ELSE best_scan(st, t, i + 1, best_score, best_index)

\* Strategy 2 scan: <<least_recent_time, least_recent_index>>.
RECURSIVE least_recent_scan(_, _, _, _, _)
least_recent_scan(st, t, i, least_recent_time, least_recent_index) ==
    IF i > Len(st) THEN << least_recent_time, least_recent_index >>
    ELSE IF is_account_available(st, i, t)
            /\ (\/ ~IsSet(st[i].last_used)
                \/ ~IsSet(least_recent_time)
                \/ st[i].last_used[1] < least_recent_time[1])
         THEN least_recent_scan(st, t, i + 1, st[i].last_used, i)
         ELSE least_recent_scan(st, t, i + 1, least_recent_time, least_recent_index)

\* Strategy 3 scan: <<earliest_expiry, earliest_index>>.
RECURSIVE earliest_scan(_, _, _, _)
earliest_scan(st, i, earliest_expiry, earliest_index) ==
    IF i > Len(st) THEN << earliest_expiry, earliest_index >>
    ELSE LET rl == st[i].rate_limited_until
             bl == st[i].blacklisted_until
             a == IF IsSet(rl) /\ (~IsSet(earliest_expiry) \/ rl[1] < earliest_expiry[1])
                  THEN << rl, i >> ELSE << earliest_expiry, earliest_index >>
             b == IF IsSet(bl) /\ (~IsSet(a[1]) \/ bl[1] < a[1][1])
                  THEN << bl, i >> ELSE a
         IN earliest_scan(st, i + 1, b[1], b[2])

\* Variant of the selection that tries the least-recently-used strategy first.
select_account_least_recent_first(st, cur, t) ==
    LET best == best_scan(st, t, 1, -1, 0)
        lru == least_recent_scan(st, t, 1, None, 0)
        exp == earliest_scan(st, 1, None, 0)
    IN IF lru[2] # 0 THEN [strategy |-> "least_recent", index |-> lru[2]]
       ELSE IF best[2] # 0 /\ best[1] > MIN_HEALTH_FOR_PRIMARY * HealthUnit
       THEN [strategy |-> "primary", index |-> best[2]]
       ELSE IF exp[2] # 0 THEN [strategy |-> "earliest_expiry", index |-> exp[2]]
       ELSE [strategy |-> "unchanged", index |-> cur]

\* The selection of switch_account on the status map the health check left:
\* the strategy that returned and the new current_index.
select_account(st, cur, t) ==
    LET best == best_scan(st, t, 1, -1, 0)
        lru == least_recent_scan(st, t, 1, None, 0)
        exp == earliest_scan(st, 1, None, 0)
    IN IF best[2] # 0 /\ best[1] > MIN_HEALTH_FOR_PRIMARY * HealthUnit
       THEN [strategy |-> "primary", index |-> best[2]]
       ELSE IF lru[2] # 0 THEN [strategy |-> "least_recent", index |-> lru[2]]
       ELSE IF exp[2] # 0 THEN [strategy |-> "earliest_expiry", index |-> exp[2]]
       ELSE [strategy |-> "unchanged", index |-> cur]

\* switch_account: the health check, then the selection.
switch_account(st, cur, lhc, t) ==
    LET checked == run_health_check(st, lhc, t)
        chosen == select_account(checked, cur, t)
    IN [status |-> checked,
        last_health_check |-> IF health_check_due(lhc, t) THEN t ELSE lhc,
        saves |-> health_check_due(lhc, t),
        strategy |-> chosen.strategy,
        index |-> chosen.index]

\* ----------------------------------------------------- AutoXAIManager
\* The status of AutoXAIManager has the first nine fields of the enhanced
\* status; the model keeps one record shape and AutoXAIManager leaves the
\* other fields at their defaults.
AutoX_is_account_available(st, i, t) ==
    IF IsSet(st[i].rate_limited_until) /\ st[i].rate_limited_until[1] > t
    THEN FALSE ELSE TRUE

AutoX_update_health_score(st, i, change) ==
    [st EXCEPT ![i].health_score = Max(0, Min(100 * HealthUnit, @ + change))]

AutoX_mark_rate_limited(st, i, t) ==
    LET mult == Min(5000, (st[i].cooldown_multiplier * 1500) \div 1000)
        dynamic_cooldown == (RATE_LIMIT_COOLDOWN * 60 * mult) \div 1000
    IN AutoX_update_health_score(
           [st EXCEPT ![i] =
              [@ EXCEPT !.consecutive_failures = @ + 1,
                        !.cooldown_multiplier = mult,
                        !.rate_limited_until = Some(t + dynamic_cooldown),
                        !.failures = @ + 1,
                        !.total_failures = @ + 1]],
           i, -(15 * HealthUnit))

AutoX_mark_success(st, i, t) ==
    AutoX_update_health_score(
        [st EXCEPT ![i] =
           [@ EXCEPT !.last_success = Some(t),
                     !.last_used = Some(t),
                     !.failures = 0,
                     !.consecutive_failures = 0,
                     !.total_requests = @ + 1,
                     !.cooldown_multiplier = Max(1000, (@ * 800) \div 1000)]],
        i, 5 * HealthUnit)

AutoX_mark_failure(st, i, is_rate_limit, t) ==
    LET cf == st[i].consecutive_failures + 1
        s1 == AutoX_update_health_score(
                  [st EXCEPT ![i] =
                     [@ EXCEPT !.failures = @ + 1,
                               !.consecutive_failures = cf,
                               !.total_failures = @ + 1,
                               !.last_used = Some(t)]],
                  i, -(10 * HealthUnit))
    IN IF is_rate_limit THEN AutoX_mark_rate_limited(s1, i, t)
       ELSE IF cf >= 3
            THEN [s1 EXCEPT ![i].rate_limited_until = Some(t + Min(30, 5 * cf) * 60)]
            ELSE s1

RECURSIVE AutoX_best_scan(_, _, _, _, _)
AutoX_best_scan(st, t, i, best_score, best_index) ==
    IF i > Len(st) THEN << best_score, best_index >>
    ELSE IF AutoX_is_account_available(st, i, t) /\ st[i].health_score > best_score
         THEN AutoX_best_scan(st, t, i + 1, st[i].health_score, i)
         ELSE AutoX_best_scan(st, t, i + 1, best_score, best_index)

RECURSIVE AutoX_least_recent_scan(_, _, _, _, _)
AutoX_least_recent_scan(st, t, i, least_recent_time, least_recent_index) ==
    IF i > Len(st) THEN << least_recent_time, least_recent_index >>
    ELSE IF AutoX_is_account_available(st, i, t)
            /\ (\/ ~IsSet(st[i].last_used)
                \/ ~IsSet(least_recent_time)
                \/ st[i].last_used[1] < least_recent_time[1])
         THEN AutoX_least_recent_scan(st, t, i + 1, st[i].last_used, i)
         ELSE AutoX_least_recent_scan(st, t, i + 1, least_recent_time, least_recent_index)

RECURSIVE AutoX_earliest_scan(_, _, _, _)
AutoX_earliest_scan(st, i, earliest_expiry, earliest_index) ==
    IF i > Len(st) THEN << earliest_expiry, earliest_index >>
    ELSE IF IsSet(st[i].rate_limited_until)
            /\ (~IsSet(earliest_expiry) \/ st[i].rate_limited_until[1] < earliest_expiry[1])
         THEN AutoX_earliest_scan(st, i + 1, st[i].rate_limited_until, i)
         ELSE AutoX_earliest_scan(st, i + 1, earliest_expiry, earliest_index)

AutoX_switch_account(st, cur, t) ==
    LET best == AutoX_best_scan(st, t, 1, -1, 0)
        lru == AutoX_least_recent_scan(st, t, 1, None, 0)
        exp == AutoX_earliest_scan(st, 1, None, 0)
    IN IF best[2] # 0 /\ best[1] > AUTOX_MIN_HEALTH_FOR_PRIMARY * HealthUnit
       THEN [strategy |-> "primary", index |-> best[2]]
       ELSE IF lru[2] # 0 THEN [strategy |-> "least_recent", index |-> lru[2]]
       ELSE IF exp[2] # 0 THEN [strategy |-> "earliest_expiry", index |-> exp[2]]
       ELSE [strategy |-> "unchanged", index |-> cur]

\* ------------------------------------------------------------- state
VARIABLES
    variant,            \* which manager class the instance is
    account_status,     \* self.account_status, a sequence indexed by account
    current_index,      \* self.current_index
    last_health_check,  \* self.last_health_check
    health_file,        \* content of storagex_data/api_health.json, None if absent
    now,                \* datetime.now()
    ticks,              \* number of clock jumps so far
    pc,                 \* position of the run() call: idle, loop, call, done
    retries,            \* run(): retries
    tried_accounts,     \* run(): tried_accounts
    account,            \* run(): account, as the index of the account read at the loop head
    account_index,      \* run(): account_index of the call in flight
    result,             \* what run() returned
    runs,               \* run() calls started
    calls,              \* outbound calls issued
    events,             \* direct method calls made (event streams)
    attempts,           \* history: the attempts of the current run()
    sleeps,             \* history: the time.sleep() calls of the current run()
    reselects,          \* history: consecutive switch_account-then-continue steps
    sel,                \* history: the last switch_account
    last_ev,            \* history: the last status update
    hist,               \* history per account: failures in a row, fifth failure
    last_parallel_check, \* APIAccountManager.last_parallel_check
    coroutines,         \* position and locals of each coroutine in the APIAccountManager
    cache,              \* the Redis entries zealx:api_account:<account_id>
    rounds,             \* history: the start times of the rounds of probes
    api_account_manager, \* backend/core/dependencies.py: the global APIAccountManager
    brainx,             \* the BrainXAI.generate_response call in progress
    rotation_log,       \* history: the indices get_next_account returned
    threads,            \* position and locals of each thread inside mark_success / mark_failure
    tally               \* history per account: successes and failure increments recorded

mgrVars == << variant, account_status, current_index, last_health_check, health_file >>
clockVars == << now, ticks >>
runVars == << pc, retries, tried_accounts, account, account_index, result, runs, calls >>
histVars == << attempts, sleeps, reselects, sel, last_ev, hist >>
probeVars == << last_parallel_check, coroutines, cache, rounds >>
backendVars == << api_account_manager, brainx, rotation_log >>
threadVars == << threads, tally >>
vars == << mgrVars, clockVars, runVars, histVars, events, probeVars, backendVars, threadVars >>

Variants == {"AutoXAIManager", "EnhancedAPIManager"}
Enhanced == variant = "EnhancedAPIManager"
NumAccounts == Len(account_status)
Accounts == 1 .. NumAccounts

\* What the outbound call can answer: an HTTP status with a decodable body, a
\* 200 whose body response.json() cannot decode, or a transport exception.
Outcomes == {"200", "200_bad_body", "201", "429", "503", "401", "403", "500",
             "timeout", "connection"}

\* The branch of run() an outcome takes in EnhancedAPIManager.
classify(outcome) ==
    IF outcome = "200" THEN "success"
    ELSE IF outcome = "200_bad_body" THEN "bad_body"
    ELSE IF outcome \in {"429", "503"} THEN "rate_limit"
    ELSE IF outcome \in {"401", "403"} THEN "auth"
    ELSE IF outcome = "timeout" THEN "timeout"
    ELSE IF outcome = "connection" THEN "connection"
    ELSE "api_error"

\* The branch of run() an outcome takes in AutoXAIManager.
AutoX_classify(outcome) ==
    IF outcome = "200" THEN "success"
    ELSE IF outcome = "200_bad_body" THEN "bad_body"
    ELSE IF outcome \in {"429", "403", "503"} THEN "rate_limit"
    ELSE IF outcome \in {"401", "403"} THEN "auth"
    ELSE IF outcome = "timeout" THEN "timeout"
    ELSE IF outcome = "connection" THEN "connection"
    ELSE "api_error"

\* The status update run() makes for a failed attempt of class kind.
record_failure(st, i, kind, t) ==
    IF kind = "rate_limit" THEN mark_failure(st, i, TRUE, "rate_limit", t)
    ELSE IF kind = "bad_body" THEN mark_failure(mark_success(st, i, 0, t), i, FALSE, "unknown", t)
    ELSE mark_failure(st, i, FALSE, kind, t)

AutoX_record_failure(st, i, kind, t) ==
    IF kind = "rate_limit" THEN AutoX_mark_failure(st, i, TRUE, t)
    ELSE IF kind = "auth"
    THEN AutoX_update_health_score(
             AutoX_mark_failure(
                 [st EXCEPT ![i].consecutive_failures = @ + 2], i, FALSE, t),
             i, -(25 * HealthUnit))
    ELSE IF kind = "bad_body" THEN AutoX_mark_failure(AutoX_mark_success(st, i, t), i, FALSE, t)
    ELSE AutoX_mark_failure(st, i, FALSE, t)

\* Variant of the backoff that doubles once too often.
backoff_time_doubled(k) == BACKOFF_BASE * Pow2(k)

\* The retry backoff of run() after retries was incremented to k.
backoff_time(k) == IF k = 1 THEN BACKOFF_BASE ELSE BACKOFF_BASE * Pow2(k - 1)

\* Variant of the failure report that names only the last account tried.
failure_report_last_only(tried) ==
    [kind |-> "report", error |-> "All API accounts failed",
     retry_after |-> RETRY_AFTER, accounts_tried |-> {account_index}]

failure_report(tried) ==
    [kind |-> "report", error |-> "All API accounts failed",
     retry_after |-> RETRY_AFTER, accounts_tried |-> tried]

NoResult == [kind |-> "none"]
NoSel == [strategy |-> "none", index |-> 0, avail |-> {}, scores |-> << >>,
          at |-> 0, last_used |-> None]
NoEv == [op |-> "none", account |-> 0]
NoHist == [in_a_row |-> 0, fifth |-> None]

Available(st, i, t) ==
    IF Enhanced THEN is_account_available(st, i, t) ELSE AutoX_is_account_available(st, i, t)

\* History of one switch_account: what it chose, the availability and the
\* scores it read, when it ran and the last_used it left on the chosen account.
SelOf(st, strategy, index, t) ==
    [strategy |-> strategy, index |-> index,
     avail |-> {i \in 1 .. Len(st) : Available(st, i, t)},
     scores |-> [i \in 1 .. Len(st) |-> st[i].health_score],
     at |-> t, last_used |-> st[index].last_used]

EvOf(op, i, before, after) ==
    [op |-> op, account |-> i, before |-> before[i], after |-> after[i]]

\* History of failures in a row on account i after an update of class kind.
HistAfter(i, kind, after) ==
    [hist EXCEPT ![i] =
        IF kind = "success" THEN NoHist
        ELSE IF kind = "rate_limit" THEN [@ EXCEPT !.in_a_row = 0]
        ELSE IF kind = "bad_body" THEN [in_a_row |-> 1, fifth |-> None]
        ELSE [in_a_row |-> @.in_a_row + 1,
              fifth |-> IF @.in_a_row + 1 = MAX_CONSECUTIVE_FAILURES
                        THEN Some(after[i].blacklisted_until) ELSE @.fifth]]

\* ------------------------------------------------- APIAccountManager
\* backend/middleware/api_account_manager.py: the manager that probes the
\* accounts in parallel and caches what the probes found.
check_interval == 60
cache_ttl == 300
\* The accounts of self.accounts, all enabled, and the coroutines that call in.
ProbeAccounts == {1, 2}
Coroutines == {1, 2}

\* What get_best_account holds about an account before its loop reaches it.
Unread == [kind |-> "unread", weight |-> -1]

IdleCoroutine ==
    [pc |-> "idle", entry |-> "none", current_time |-> 0, skipped |-> FALSE,
     results |-> << >>, next |-> 1, returned |-> 0,
     seen |-> [a \in ProbeAccounts |-> Unread]]

\* __init__: no check for ten minutes, nothing cached, nobody calling.
InitAccountManager ==
    /\ last_parallel_check = now - 600
    /\ coroutines = [c \in Coroutines |-> IdleCoroutine]
    /\ cache = [a \in ProbeAccounts |-> None]
    /\ rounds = << >>

\* ------------------------------------------------- backend rotation
\* backend/core/dependencies.py: the manager that hands out API keys in
\* rotation; its indices are 0-based as in the source.
RotationStrategyNames == {"round-robin", "least-used", "adaptive", "unknown"}
KeyCounts == {1, 2, 3}
\* time.time() when the process starts, far from the 0 that last_used holds.
StartTime == 1000

\* APIAccountManager.__init__ for n keys and a configured strategy.
new_api_account_manager(n, strategy) ==
    [current_index |-> 0,
     usage_counts |-> [i \in 0 .. n - 1 |-> 0],
     last_used |-> [i \in 0 .. n - 1 |-> 0],
     rotation_strategy |-> strategy]

IdleBrainX == [pc |-> "idle", account |-> 0, failed |-> {}, depth |-> 0, result |-> "none"]

\* The backend as the other specifications leave it: constructed, never used.
InitRotation ==
    /\ api_account_manager = new_api_account_manager(1, "round-robin")
    /\ brainx = IdleBrainX
    /\ rotation_log = << >>

\* ------------------------------------------------- concurrent run() calls
\* The threads that are inside run() on the same manager.
Threads == {1, 2}
IdleThread == [pc |-> "idle", op |-> "none", index |-> 0, loaded |-> 0]

\* No thread is recording anything; nothing has been recorded on the accounts
\* 1 .. n.
InitThreads ==
    /\ threads = [th \in Threads |-> IdleThread]
    /\ tally = [i \in 1 .. 3 |-> [successes |-> 0, failures |-> 0]]

\* __init__: a random current_index, the default status for every account (no
\* health file yet).
InitManager ==
    /\ variant \in Variants
    /\ \E n \in PoolSizes :
         /\ account_status = [i \in 1 .. n |-> create_default_status]
         /\ current_index \in 1 .. n
         /\ hist = [i \in 1 .. n |-> NoHist]
    /\ last_health_check = 0
    /\ health_file = None
    /\ now = 0
    /\ ticks = 0
    /\ pc = "idle"
    /\ retries = 0
    /\ tried_accounts = {}
    /\ account = 0
    /\ account_index = 0
    /\ result = NoResult
    /\ runs = 0
    /\ calls = 0
    /\ events = 0
    /\ attempts = << >>
    /\ sleeps = << >>
    /\ reselects = 0
    /\ sel = NoSel
    /\ last_ev = NoEv
    /\ InitAccountManager
    /\ InitRotation
    /\ InitThreads

Init == InitManager

\* Time passes between two run() calls.  Inside a run() the outbound call (at
\* most REQUEST_TIMEOUT = 30 s) and the sub-second sleeps are far shorter than
\* every window of the status (15 min and more) and take no time here.
Tick ==
    /\ ticks < MaxTicks
    /\ pc \in {"idle", "done"}
    /\ calls < MaxCalls
    /\ events < MaxEvents
    /\ \E d \in TickSteps : now' = now + d
    /\ ticks' = ticks + 1
    /\ UNCHANGED << threadVars, backendVars, probeVars, mgrVars, runVars, histVars, events >>

\* ------------------------------------------------------------- run()
RunStart ==
    /\ pc \in {"idle", "done"}
    /\ calls < MaxCalls
    /\ pc' = "loop"
    /\ retries' = 0
    /\ tried_accounts' = {}
    /\ account' = 0
    /\ account_index' = 0
    /\ result' = NoResult
    /\ runs' = runs + 1
    /\ attempts' = << >>
    /\ sleeps' = << >>
    /\ reselects' = 0
    /\ UNCHANGED << threadVars, backendVars, probeVars, mgrVars, clockVars, calls, events, sel, last_ev, hist >>

\* Variant of the loop head that skips an account already tried even when
\* every account has been tried.
SkipAccount_always == current_index \in tried_accounts

\* Variant of the loop head that never skips an account already tried.
SkipAccount_never == FALSE

SkipAccount ==
    current_index \in tried_accounts /\ Cardinality(tried_accounts) < NumAccounts

\* self.switch_account() of the instance's class, in the shape of switch_account.
Switch(st, cur, lhc, t) ==
    IF Enhanced THEN switch_account(st, cur, lhc, t)
    ELSE [status |-> st, last_health_check |-> lhc, saves |-> FALSE,
          strategy |-> AutoX_switch_account(st, cur, t).strategy,
          index |-> AutoX_switch_account(st, cur, t).index]

\* The effect of one self.switch_account() on the manager and on sel.
DoSwitch(st, file) ==
    \E sw \in {Switch(st, current_index, last_health_check, now)} :
        /\ account_status' = sw.status
        /\ current_index' = sw.index
        /\ last_health_check' = sw.last_health_check
        /\ health_file' = IF sw.saves THEN save_account_status(sw.status) ELSE file
        /\ sel' = SelOf(sw.status, sw.strategy, sw.index, now)

\* Loop head, account already tried: switch_account() and continue.
RunSkip ==
    /\ pc = "loop"
    /\ retries < RETRY_LIMIT
    /\ SkipAccount
    /\ DoSwitch(account_status, health_file)
    /\ reselects' = IF reselects > NumAccounts THEN reselects ELSE reselects + 1
    /\ UNCHANGED << threadVars, backendVars, probeVars, variant, clockVars, runVars, events, attempts, sleeps, last_ev, hist >>

\* Loop head, account accepted: add it to tried_accounts and post the request.
RunIssue ==
    /\ pc = "loop"
    /\ retries < RETRY_LIMIT
    /\ ~SkipAccount
    /\ calls < MaxCalls
    /\ account' = current_index
    /\ account_index' = current_index
    /\ tried_accounts' = tried_accounts \cup {current_index}
    /\ calls' = calls + 1
    /\ pc' = "call"
    /\ reselects' = 0
    /\ UNCHANGED << threadVars, backendVars, probeVars, mgrVars, clockVars, retries, result, runs, events,
                    attempts, sleeps, sel, last_ev, hist >>

\* The status map after the update run() makes for an attempt of class kind.
Recorded(kind, rt) ==
    IF kind = "success"
    THEN (IF Enhanced THEN mark_success(account_status, account_index, rt, now)
          ELSE AutoX_mark_success(account_status, account_index, now))
    ELSE (IF Enhanced THEN record_failure(account_status, account_index, kind, now)
          ELSE AutoX_record_failure(account_status, account_index, kind, now))

\* The health file after that update: mark_success and mark_failure save on
\* their conditions (the 200 with an undecodable body saves, if at all, between
\* its mark_success and its mark_failure).
FileAfter(kind, after) ==
    IF ~Enhanced THEN health_file
    ELSE IF kind = "success"
    THEN (IF mark_success_saves(after, account_index)
          THEN save_account_status(after) ELSE health_file)
    ELSE IF kind = "bad_body"
    THEN (IF mark_success_saves(mark_success(account_status, account_index, 0, now),
                                account_index)
          THEN save_account_status(mark_success(account_status, account_index, 0, now))
          ELSE health_file)
    ELSE IF mark_failure_saves(after, account_index, kind = "rate_limit")
    THEN save_account_status(after)
    ELSE health_file

\* The request returned 200 with a decodable body: mark_success and return.
RunSuccess ==
    /\ pc = "call"
    /\ \E rt \in ResponseTimes :
         \E after \in {Recorded("success", rt)} :
            /\ account_status' = after
            /\ health_file' = FileAfter("success", after)
            /\ last_ev' = EvOf("success", account_index, account_status, after)
            /\ hist' = HistAfter(account_index, "success", after)
    /\ result' = [kind |-> "ok"]
    /\ pc' = "done"
    /\ attempts' = Append(attempts, [account |-> account, marked |-> account_index,
                                   kind |-> "success", at |-> now, outcome |-> "200"])
    /\ UNCHANGED << threadVars, backendVars, probeVars, variant, current_index, last_health_check, clockVars, retries,
                    tried_accounts, account, account_index, runs, calls, events,
                    sleeps, reselects, sel >>

\* The time.sleep() calls of a failed attempt of class kind that brings
\* retries to k.
sleeps_after(kind, k) ==
    (IF kind = "connection"
     THEN << [why |-> "connection", after |-> k, ms |-> BACKOFF_BASE] >> ELSE << >>)
    \o (IF k < RETRY_LIMIT
        THEN << [why |-> "backoff", after |-> k, ms |-> backoff_time(k)] >> ELSE << >>)

\* The request failed: record the failure, switch_account, count the retry, back off.
RunFailure ==
    /\ pc = "call"
    /\ \E outcome \in Outcomes \ {"200"} :
         \E kind \in {IF Enhanced THEN classify(outcome) ELSE AutoX_classify(outcome)} :
            \E after \in {Recorded(kind, 0)} :
               /\ DoSwitch(after, FileAfter(kind, after))
               /\ last_ev' = EvOf(kind, account_index, account_status, after)
               /\ hist' = HistAfter(account_index, kind, after)
               /\ attempts' = Append(attempts,
                                     [account |-> account, marked |-> account_index,
                                      kind |-> kind, at |-> now, outcome |-> outcome])
               /\ sleeps' = sleeps \o sleeps_after(kind, retries + 1)
    /\ retries' = retries + 1
    /\ pc' = "loop"
    /\ UNCHANGED << threadVars, backendVars, probeVars, variant, clockVars, tried_accounts, account, account_index, result,
                    runs, calls, events, reselects >>

\* Loop exhausted: return the failure report.
RunExhausted ==
    /\ pc = "loop"
    /\ ~(retries < RETRY_LIMIT)
    /\ result' = failure_report(tried_accounts)
    /\ pc' = "done"
    /\ UNCHANGED << threadVars, backendVars, probeVars, mgrVars, clockVars, retries, tried_accounts, account, account_index,
                    runs, calls, events, histVars >>

Next ==
    \/ Tick
    \/ RunStart
    \/ RunSkip
    \/ RunIssue
    \/ RunSuccess
    \/ RunFailure
    \/ RunExhausted

Spec == Init /\ [][Next]_vars

\* ------------------------------------------------- event streams
\* The public methods of a manager called directly, in any order, on any
\* account (what a background probe or a rotation thread does).

\* The status map after k general failures in a row on account i at time t.
RECURSIVE FailuresInARow(_, _, _, _)
FailuresInARow(st, i, k, t) ==
    IF k = 0 THEN st
    ELSE IF Enhanced
         THEN mark_failure(FailuresInARow(st, i, k - 1, t), i, FALSE, "general", t)
         ELSE AutoX_mark_failure(FailuresInARow(st, i, k - 1, t), i, FALSE, t)

RECURSIVE Troubled(_, _, _)
Troubled(st, i, bad) ==
    IF i > Len(st) THEN st
    ELSE Troubled(IF i \in bad
                  THEN FailuresInARow(st, i, MAX_CONSECUTIVE_FAILURES - 1, 0)
                  ELSE st,
                  i + 1, bad)

\* A manager some of whose accounts have just failed MAX_CONSECUTIVE_FAILURES - 1
\* times in a row, the others in default status.
InitEvents ==
    /\ variant \in Variants
    /\ \E n \in EventPoolSizes : \E bad \in SUBSET (1 .. n) :
         /\ account_status = Troubled([i \in 1 .. n |-> create_default_status], 1, bad)
         /\ current_index \in 1 .. n
         /\ hist = [i \in 1 .. n |->
                      IF i \in bad
                      THEN [in_a_row |-> MAX_CONSECUTIVE_FAILURES - 1, fifth |-> None]
                      ELSE NoHist]
         /\ health_file = IF Enhanced /\ bad # {}
                          THEN save_account_status(
                                   Troubled([i \in 1 .. n |-> create_default_status], 1, bad))
                          ELSE None
    /\ last_health_check = 0
    /\ now = 0
    /\ ticks = 0
    /\ pc = "idle"
    /\ retries = 0
    /\ tried_accounts = {}
    /\ account = 0
    /\ account_index = 0
    /\ result = NoResult
    /\ runs = 0
    /\ calls = 0
    /\ events = 0
    /\ attempts = << >>
    /\ sleeps = << >>
    /\ reselects = 0
    /\ sel = NoSel
    /\ last_ev = NoEv
    /\ InitAccountManager
    /\ InitRotation
    /\ InitThreads

\* mark_success(i, rt); AutoXAIManager's takes no response time.
EvSuccess ==
    /\ events < MaxEvents
    /\ \E i \in Accounts : \E rt \in (IF Enhanced THEN {0} \cup ResponseTimes ELSE {0}) :
         \E after \in {IF Enhanced THEN mark_success(account_status, i, rt, now)
                       ELSE AutoX_mark_success(account_status, i, now)} :
            /\ account_status' = after
            /\ health_file' = IF Enhanced /\ mark_success_saves(after, i)
                              THEN save_account_status(after) ELSE health_file
            /\ last_ev' = EvOf("success", i, account_status, after)
            /\ hist' = HistAfter(i, "success", after)
    /\ events' = events + 1
    /\ UNCHANGED << threadVars, backendVars, probeVars, variant, current_index, last_health_check, clockVars, runVars,
                    attempts, sleeps, reselects, sel >>

\* mark_failure(i, is_rate_limit, error_type).
EvFailure ==
    /\ events < MaxEvents
    /\ \E i \in Accounts : \E kind \in {"general", "auth", "rate_limit"} :
         \E after \in {IF Enhanced
                       THEN mark_failure(account_status, i, kind = "rate_limit", kind, now)
                       ELSE AutoX_mark_failure(account_status, i, kind = "rate_limit", now)} :
            /\ account_status' = after
            /\ health_file' = IF Enhanced /\ mark_failure_saves(after, i, kind = "rate_limit")
                              THEN save_account_status(after) ELSE health_file
            /\ last_ev' = EvOf(kind, i, account_status, after)
            /\ hist' = HistAfter(i, kind, after)
    /\ events' = events + 1
    /\ UNCHANGED << threadVars, backendVars, probeVars, variant, current_index, last_health_check, clockVars, runVars,
                    attempts, sleeps, reselects, sel >>

\* mark_rate_limited(i).
EvRateLimited ==
    /\ events < MaxEvents
    /\ \E i \in Accounts :
         \E after \in {IF Enhanced THEN mark_rate_limited(account_status, i, now)
                       ELSE AutoX_mark_rate_limited(account_status, i, now)} :
            /\ account_status' = after
            /\ health_file' = IF Enhanced THEN save_account_status(after) ELSE health_file
            /\ last_ev' = EvOf("mark_rate_limited", i, account_status, after)
            /\ hist' = HistAfter(i, "rate_limit", after)
    /\ events' = events + 1
    /\ UNCHANGED << threadVars, backendVars, probeVars, variant, current_index, last_health_check, clockVars, runVars,
                    attempts, sleeps, reselects, sel >>

\* switch_account(), with the health check it starts with.
EvSwitch ==
    /\ events < MaxEvents
    /\ DoSwitch(account_status, health_file)
    /\ last_ev' = [op |-> "switch_account", account |-> 0,
                   before |-> account_status, after |-> account_status',
                   checked |-> Enhanced /\ health_check_due(last_health_check, now),
                   at |-> now]
    /\ events' = events + 1
    /\ UNCHANGED << threadVars, backendVars, probeVars, variant, clockVars, runVars, attempts, sleeps, reselects, hist >>

NextEvents ==
    \/ Tick
    \/ EvSuccess
    \/ EvFailure
    \/ EvRateLimited
    \/ EvSwitch

SpecEvents == InitEvents /\ [][NextEvents]_vars

\* ------------------------------------------------- persistence
\* An EnhancedAPIManager whose status is saved, whose health file can be
\* damaged from outside, and which is constructed again from the file.

\* The status map after k mark_rate_limited calls in a row on account i at time t.
RECURSIVE RateLimitsInARow(_, _, _, _)
RateLimitsInARow(st, i, k, t) ==
    IF k = 0 THEN st ELSE mark_rate_limited(RateLimitsInARow(st, i, k - 1, t), i, t)

\* The status map after one mark_success for each response time of rts, in
\* order, on account i at time t.
RECURSIVE SuccessesInARow(_, _, _, _)
SuccessesInARow(st, i, rts, t) ==
    IF rts = << >> THEN st
    ELSE mark_success(SuccessesInARow(st, i, SubSeq(rts, 1, Len(rts) - 1), t),
                      i, rts[Len(rts)], t)

\* What an account went through before: nothing, MAX_CONSECUTIVE_FAILURES - 1
\* general failures, or two successes and then three rate limits.
Pasts == {"fresh", "failing", "throttled"}

RECURSIVE Worn(_, _, _)
Worn(st, i, past) ==
    IF i > Len(st) THEN st
    ELSE Worn(IF past[i] = "failing"
              THEN FailuresInARow(st, i, MAX_CONSECUTIVE_FAILURES - 1, 0)
              ELSE IF past[i] = "throttled"
              THEN RateLimitsInARow(SuccessesInARow(st, i, << 50, 2000 >>, 0), i, 3, 0)
              ELSE st,
              i + 1, past)

InitPersist ==
    /\ variant = "EnhancedAPIManager"
    /\ \E n \in EventPoolSizes : \E past \in [1 .. n -> Pasts] :
         /\ account_status = Worn([i \in 1 .. n |-> create_default_status], 1, past)
         /\ current_index \in 1 .. n
         /\ hist = [i \in 1 .. n |->
                      IF past[i] = "failing"
                      THEN [in_a_row |-> MAX_CONSECUTIVE_FAILURES - 1, fifth |-> None]
                      ELSE NoHist]
         /\ health_file = IF \E i \in 1 .. n : past[i] # "fresh"
                          THEN save_account_status(
                                   Worn([i \in 1 .. n |-> create_default_status], 1, past))
                          ELSE None
    /\ last_health_check = 0
    /\ now = 0
    /\ ticks = 0
    /\ pc = "idle"
    /\ retries = 0
    /\ tried_accounts = {}
    /\ account = 0
    /\ account_index = 0
    /\ result = NoResult
    /\ runs = 0
    /\ calls = 0
    /\ events = 0
    /\ attempts = << >>
    /\ sleeps = << >>
    /\ reselects = 0
    /\ sel = NoSel
    /\ last_ev = NoEv
    /\ InitAccountManager
    /\ InitRotation
    /\ InitThreads

\* _save_account_status(), called on its own, under any fault.
PersistSave ==
    /\ events < MaxEvents
    /\ events' = events + 1
    /\ \E fault \in SaveFaults :
         \E r \in {save_account_status_call(account_status, health_file, fault)} :
            /\ account_status' = r.status
            /\ health_file' = r.file
            /\ last_ev' = [op |-> "save", account |-> 0, ok |-> r.ok,
                           memory |-> account_status]
    /\ UNCHANGED << threadVars, backendVars, probeVars, variant, current_index, last_health_check, clockVars, runVars,
                    attempts, sleeps, reselects, sel, hist >>

\* A string datetime.fromisoformat rejects.
BadTimestamp == Some([iso |-> 0, valid |-> FALSE])

TimestampFields == {"rate_limited_until", "last_success", "last_used", "blacklisted_until"}

\* One edit of the health file from outside the manager: it is not JSON any
\* more, an account's object is replaced by a number, an account's object is
\* removed, or a stored timestamp is replaced by a string that is no ISO date.
DamagedOnce(file) ==
    {UndecodableFile}
    \cup {Some([file[1] EXCEPT !.entries[i].object = FALSE]) : i \in DOMAIN file[1].entries}
    \cup {Some([file[1] EXCEPT !.entries[i].present = FALSE]) : i \in DOMAIN file[1].entries}
    \cup {Some([file[1] EXCEPT !.entries[i].status[f] = BadTimestamp]) :
            << i, f >> \in {x \in (DOMAIN file[1].entries) \X TimestampFields :
                              IsSet(file[1].entries[x[1]].status[x[2]])}}

\* What the health file can be turned into between two runs of the process:
\* one such edit or two.
DamagedFiles(file) ==
    DamagedOnce(file)
    \cup UNION {DamagedOnce(g) : g \in {h \in DamagedOnce(file) : h[1].decodable}}

PersistDamage ==
    /\ IsSet(health_file)
    /\ health_file[1].decodable
    /\ events < MaxEvents
    /\ events' = events + 1
    /\ health_file' \in DamagedFiles(health_file)
    /\ last_ev' = [op |-> "damage", account |-> 0]
    /\ UNCHANGED << threadVars, backendVars, probeVars, variant, account_status, current_index, last_health_check, clockVars,
                    runVars, attempts, sleeps, reselects, sel, hist >>

\* The process starts again: __init__ with _initialize_account_status reading
\* the health file.
PersistLoad ==
    /\ events < MaxEvents
    /\ events' = events + 1
    /\ account_status' = initialize_account_status(health_file, NumAccounts)
    /\ current_index' \in Accounts
    /\ last_health_check' = now
    /\ hist' = [i \in Accounts |-> NoHist]
    /\ sel' = NoSel
    /\ last_ev' = [op |-> "load", account |-> 0, file |-> health_file,
                   in_sync |-> health_file = save_account_status(account_status),
                   memory |-> account_status]
    /\ UNCHANGED << threadVars, backendVars, probeVars, variant, health_file, clockVars, runVars, attempts, sleeps,
                    reselects >>

NextPersist ==
    \/ Tick
    \/ EvSuccess
    \/ EvFailure
    \/ EvRateLimited
    \/ PersistSave
    \/ PersistDamage
    \/ PersistLoad

SpecPersist == InitPersist /\ [][NextPersist]_vars

\* ------------------------------------------------- concurrency
\* One run() call on a manager that FireEvolutionAI's rotation thread uses at
\* the same time.  The threads interleave between statements: run() reads
\* account (get_active_account) and account_index (self.current_index) in two
\* statements, and the rotation can run between any two steps of run().

RotationStrategies == {"round_robin", "health_based", "adaptive"}

\* _rotate_apis, strategy adaptive: the usage score of an account.
usage_score(s) == s.total_requests * 7 + s.total_failures * 3

\* _rotate_apis, strategy adaptive: the scan for the available account of
\* lowest usage, from account i on; a pair << lowest_usage, best_account >>.
RECURSIVE adaptive_scan(_, _, _, _, _)
adaptive_scan(st, t, i, lowest_usage, best_account) ==
    IF i > Len(st) THEN << lowest_usage, best_account >>
    ELSE IF Available(st, i, t)
            /\ (~IsSet(lowest_usage) \/ usage_score(st[i]) < lowest_usage[1])
         THEN adaptive_scan(st, t, i + 1, Some(usage_score(st[i])), i)
         ELSE adaptive_scan(st, t, i + 1, lowest_usage, best_account)

\* Variant of the adaptive choice that assigns best_account even when the scan
\* found none.
adaptive_account_unchecked(st, t) == << TRUE, adaptive_scan(st, t, 1, None, 0)[2] >>

\* _rotate_apis, strategy adaptive: << found, best_account >>.
adaptive_account(st, t) ==
    << adaptive_scan(st, t, 1, None, 0)[2] # 0, adaptive_scan(st, t, 1, None, 0)[2] >>

\* A run() starts on a manager in its initial state.
ConcStart ==
    /\ pc = "idle"
    /\ pc' = "loop"
    /\ retries' = 0
    /\ tried_accounts' = {}
    /\ account' = 0
    /\ account_index' = 0
    /\ result' = NoResult
    /\ runs' = runs + 1
    /\ attempts' = << >>
    /\ sleeps' = << >>
    /\ reselects' = 0
    /\ UNCHANGED << threadVars, backendVars, probeVars, mgrVars, clockVars, calls, events, sel, last_ev, hist >>

\* account = self.get_active_account()
ConcReadAccount ==
    /\ pc = "loop"
    /\ retries < RETRY_LIMIT
    /\ account' = current_index
    /\ pc' = "read"
    /\ UNCHANGED << threadVars, backendVars, probeVars, mgrVars, clockVars, retries, tried_accounts, account_index, result,
                    runs, calls, events, histVars >>

\* The skip test of run() on the account it read.
ConcSkipAccount ==
    account \in tried_accounts /\ Cardinality(tried_accounts) < NumAccounts

\* account_index = self.current_index, then the skip: switch_account() and continue.
ConcSkip ==
    /\ pc = "read"
    /\ ConcSkipAccount
    /\ reselects <= NumAccounts
    /\ DoSwitch(account_status, health_file)
    /\ account_index' = current_index
    /\ pc' = "loop"
    /\ reselects' = reselects + 1
    /\ UNCHANGED << threadVars, backendVars, probeVars, variant, clockVars, retries, tried_accounts, account, result, runs,
                    calls, events, attempts, sleeps, last_ev, hist >>

\* account_index = self.current_index, then the request with the credential of
\* account.
ConcIssue ==
    /\ pc = "read"
    /\ ~ConcSkipAccount
    /\ calls < MaxCalls
    /\ account_index' = current_index
    /\ tried_accounts' = tried_accounts \cup {account}
    /\ calls' = calls + 1
    /\ pc' = "call"
    /\ reselects' = 0
    /\ UNCHANGED << threadVars, backendVars, probeVars, mgrVars, clockVars, retries, account, result, runs, events,
                    attempts, sleeps, sel, last_ev, hist >>

\* One _rotate_apis of the rotation thread.
Rotate ==
    /\ events < MaxEvents
    /\ events' = events + 1
    /\ \E strategy \in RotationStrategies :
         /\ IF strategy = "adaptive" /\ adaptive_account(account_status, now)[1]
            THEN /\ current_index' = adaptive_account(account_status, now)[2]
                 /\ UNCHANGED << account_status, last_health_check, health_file, sel >>
            ELSE DoSwitch(account_status, health_file)
         /\ last_ev' = [op |-> "rotate", account |-> 0, strategy |-> strategy]
    /\ UNCHANGED << threadVars, backendVars, probeVars, variant, clockVars, runVars, attempts, sleeps, reselects, hist >>

NextConc ==
    \/ ConcStart
    \/ ConcReadAccount
    \/ ConcSkip
    \/ ConcIssue
    \/ RunSuccess
    \/ RunFailure
    \/ RunExhausted
    \/ Rotate

SpecConc == Init /\ [][NextConc]_vars

\* ------------------------------------------------- selection on worn pools
\* What an account went through at time 0 before the selection is observed:
\*   fresh       nothing;
\*   cooling     one mark_rate_limited;
\*   throttled   four mark_rate_limited in a row (never used through run());
\*   limited     two rate-limit failures recorded with mark_failure;
\*   blacklisted MAX_CONSECUTIVE_FAILURES general failures in a row.
SelectPasts == {"fresh", "cooling", "throttled", "limited", "blacklisted"}

RECURSIVE MarkedRateLimited(_, _, _, _)
MarkedRateLimited(st, i, k, t) ==
    IF k = 0 THEN st
    ELSE IF Enhanced THEN mark_rate_limited(MarkedRateLimited(st, i, k - 1, t), i, t)
         ELSE AutoX_mark_rate_limited(MarkedRateLimited(st, i, k - 1, t), i, t)

RECURSIVE RateLimitFailures(_, _, _, _)
RateLimitFailures(st, i, k, t) ==
    IF k = 0 THEN st
    ELSE IF Enhanced
         THEN mark_failure(RateLimitFailures(st, i, k - 1, t), i, TRUE, "rate_limit", t)
         ELSE AutoX_mark_failure(RateLimitFailures(st, i, k - 1, t), i, TRUE, t)

\* The status of one account with the given past.
Prepared(past) ==
    LET st == << create_default_status >>
    IN (CASE past = "cooling" -> MarkedRateLimited(st, 1, 1, 0)
          [] past = "throttled" -> MarkedRateLimited(st, 1, 4, 0)
          [] past = "limited" -> RateLimitFailures(st, 1, 2, 0)
          [] past = "blacklisted" -> FailuresInARow(st, 1, MAX_CONSECUTIVE_FAILURES, 0)
          [] OTHER -> st)[1]

\* A manager whose accounts each have one of the pasts above.
InitSelect ==
    /\ variant \in Variants
    /\ \E worn \in {[p \in SelectPasts |-> Prepared(p)]} :
       \E n \in {2, 3} : \E past \in [1 .. n -> SelectPasts] :
         /\ account_status = [i \in 1 .. n |-> worn[past[i]]]
         /\ current_index \in 1 .. n
         /\ hist = [i \in 1 .. n |-> NoHist]
         /\ health_file = IF Enhanced /\ \E i \in 1 .. n : past[i] # "fresh"
                          THEN save_account_status([i \in 1 .. n |-> worn[past[i]]])
                          ELSE None
    /\ last_health_check = 0
    /\ now = 0
    /\ ticks = 0
    /\ pc = "idle"
    /\ retries = 0
    /\ tried_accounts = {}
    /\ account = 0
    /\ account_index = 0
    /\ result = NoResult
    /\ runs = 0
    /\ calls = 0
    /\ events = 0
    /\ attempts = << >>
    /\ sleeps = << >>
    /\ reselects = 0
    /\ sel = NoSel
    /\ last_ev = NoEv
    /\ InitAccountManager
    /\ InitRotation
    /\ InitThreads

NextSelect ==
    \/ Tick
    \/ EvSwitch

SpecSelect == InitSelect /\ [][NextSelect]_vars

\* ------------------------------------------------- run() after a restart
\* What the accounts of the snapshot went through before the process stopped.
RestartPasts == {"fresh", "cooling"}

\* An EnhancedAPIManager constructed at time 0 from the snapshot a previous
\* process saved at that time: the stored status of each account and a random
\* current_index.
InitRestart ==
    /\ variant = "EnhancedAPIManager"
    /\ \E worn \in {[p \in RestartPasts |-> Prepared(p)]} :
       \E past \in [1 .. 2 -> RestartPasts] :
         /\ health_file = save_account_status([i \in 1 .. 2 |-> worn[past[i]]])
         /\ account_status
               = initialize_account_status(
                     save_account_status([i \in 1 .. 2 |-> worn[past[i]]]), 2)
         /\ current_index \in 1 .. 2
         /\ hist = [i \in 1 .. 2 |-> NoHist]
    /\ last_health_check = 0
    /\ now = 0
    /\ ticks = 0
    /\ pc = "idle"
    /\ retries = 0
    /\ tried_accounts = {}
    /\ account = 0
    /\ account_index = 0
    /\ result = NoResult
    /\ runs = 0
    /\ calls = 0
    /\ events = 0
    /\ attempts = << >>
    /\ sleeps = << >>
    /\ reselects = 0
    /\ sel = NoSel
    /\ last_ev = NoEv
    /\ InitAccountManager
    /\ InitRotation
    /\ InitThreads

SpecRestart == InitRestart /\ [][Next]_vars

\* ------------------------------------------------- health probes
ProbeTickSteps == {30, 60}
EntryPoints == {"check_all_accounts_health", "get_best_account"}

\* What check_account_health can return for one account: healthy with a low
\* x-ratelimit-remaining, rate_limited with a reset time, or error.
ProbeOutcomes(t) ==
    {[status |-> "healthy", remaining_requests |-> Some(50), reset_time |-> None],
     [status |-> "rate_limited", remaining_requests |-> Some(0), reset_time |-> Some(t + 30)],
     [status |-> "error", remaining_requests |-> None, reset_time |-> None]}

\* The guard of check_all_accounts_health.
parallel_check_due(current_time, last) == ~(current_time - last < check_interval)

\* Variant of the round start that leaves last_parallel_check as it was.
last_parallel_check_not_stamped(last, current_time) == last

\* self.last_parallel_check after a round passed the guard.
last_parallel_check_stamped(last, current_time) == current_time

\* get_account_status: the cached status of account a, None once the entry
\* has outlived its Redis TTL.
cached_account_status(ch, a, t) ==
    IF IsSet(ch[a]) /\ t - ch[a][1].written < cache_ttl THEN Some(ch[a][1].status) ELSE None

\* Default weight of account a, in hundredths: len(account_ids) - i.
account_weight(a) == (Cardinality(ProbeAccounts) + 1 - a) * 100
max_requests_per_minute == 1000

\* Variant of the weight that lists a rate-limited or failing account as an
\* account of unknown status is listed.
effective_weight_lists_all(ch, a, t) ==
    LET status == cached_account_status(ch, a, t)
    IN IF ~IsSet(status) \/ t - status[1].last_checked > cache_ttl
       THEN account_weight(a) \div 10
       ELSE IF status[1].status # "healthy" THEN account_weight(a) \div 10
       ELSE account_weight(a)

\* The weight with which get_best_account lists account a, -1 if it skips it.
effective_weight(ch, a, t) ==
    LET status == cached_account_status(ch, a, t)
    IN IF ~IsSet(status) \/ t - status[1].last_checked > cache_ttl
       THEN account_weight(a) \div 10
       ELSE IF status[1].status # "healthy" THEN -1
       ELSE IF ~IsSet(status[1].remaining_requests) THEN account_weight(a)
       ELSE IF status[1].remaining_requests[1] * 10 < max_requests_per_minute
       THEN account_weight(a) \div 10
       ELSE IF status[1].remaining_requests[1] * 10 < 3 * max_requests_per_minute
       THEN account_weight(a) \div 2
       ELSE account_weight(a)

\* What the loop of get_best_account reads for account a: "unknown" when
\* there is no status or the status is older than cache_ttl, else the status
\* field.
status_kind(ch, a, t) ==
    LET status == cached_account_status(ch, a, t)
    IN IF ~IsSet(status) \/ t - status[1].last_checked > cache_ttl
       THEN "unknown"
       ELSE status[1].status

\* The accounts listed in healthy_accounts after the loop.
healthy_accounts(seen) == {a \in ProbeAccounts : seen[a].weight >= 0}

\* The accounts the weighted draw over healthy_accounts can end on: each
\* listed account of positive weight, and the first listed one.
best_accounts(seen) ==
    {a \in healthy_accounts(seen) :
        seen[a].weight > 0 \/ \A b \in healthy_accounts(seen) : a <= b}

\* The test of the second loop: rate-limited with a reset time in the past.
reset_time_passed(ch, a, t) ==
    LET status == cached_account_status(ch, a, t)
    IN /\ IsSet(status)
       /\ status[1].status = "rate_limited"
       /\ IsSet(status[1].reset_time)
       /\ t > status[1].reset_time[1]

\* A manager of the backend with nothing cached; the other managers idle.
InitProbes ==
    /\ variant = "EnhancedAPIManager"
    /\ account_status = << create_default_status >>
    /\ current_index = 1
    /\ hist = << NoHist >>
    /\ last_health_check = 0
    /\ health_file = None
    /\ now = 0
    /\ ticks = 0
    /\ pc = "idle"
    /\ retries = 0
    /\ tried_accounts = {}
    /\ account = 0
    /\ account_index = 0
    /\ result = NoResult
    /\ runs = 0
    /\ calls = 0
    /\ events = 0
    /\ attempts = << >>
    /\ sleeps = << >>
    /\ reselects = 0
    /\ sel = NoSel
    /\ last_ev = NoEv
    /\ InitAccountManager
    /\ InitRotation
    /\ InitThreads

otherVars == << mgrVars, runVars, histVars, backendVars, threadVars >>

\* The clock between two steps of the coroutines.
ProbeTick ==
    /\ ticks < MaxProbeTicks
    /\ \E d \in ProbeTickSteps : now' = now + d
    /\ ticks' = ticks + 1
    /\ UNCHANGED << otherVars, events, probeVars >>

\* A coroutine calls check_all_accounts_health, directly or as the first
\* statement of get_best_account, and runs up to its first await: the guard,
\* the stamp of last_parallel_check and the creation of the probes, or the
\* early return.
CheckEnter ==
    /\ events < MaxProbeCalls
    /\ \E c \in Coroutines : \E entry \in EntryPoints :
         /\ coroutines[c].pc = "idle"
         /\ IF parallel_check_due(now, last_parallel_check)
            THEN /\ last_parallel_check'
                       = last_parallel_check_stamped(last_parallel_check, now)
                 /\ rounds' = Append(rounds, now)
                 /\ coroutines' = [coroutines EXCEPT ![c] =
                        [IdleCoroutine EXCEPT !.pc = "gather", !.entry = entry,
                                              !.current_time = now]]
            ELSE /\ coroutines' = [coroutines EXCEPT ![c] =
                        [IdleCoroutine EXCEPT !.pc = "checked", !.entry = entry,
                                              !.current_time = now, !.skipped = TRUE]]
                 /\ UNCHANGED << last_parallel_check, rounds >>
    /\ events' = events + 1
    /\ UNCHANGED << otherVars, clockVars, cache >>

\* asyncio.gather returns: every probe has answered.
Gathered ==
    /\ \E c \in Coroutines : \E found \in [ProbeAccounts -> ProbeOutcomes(now)] :
         /\ coroutines[c].pc = "gather"
         /\ coroutines' = [coroutines EXCEPT ![c] =
                [@ EXCEPT !.pc = "cache", !.next = 1,
                          !.results = [a \in 1 .. Cardinality(ProbeAccounts) |->
                                         [account_id |-> a, last_checked |-> now,
                                          status |-> found[a].status,
                                          remaining_requests |-> found[a].remaining_requests,
                                          reset_time |-> found[a].reset_time]]]]
    /\ UNCHANGED << otherVars, clockVars, events, last_parallel_check, cache, rounds >>

\* One redis_client.setex of the result loop.
CacheWrite ==
    /\ \E c \in Coroutines :
         /\ coroutines[c].pc = "cache"
         /\ \E r \in {coroutines[c].results[coroutines[c].next]} :
              cache' = [cache EXCEPT ![r.account_id] = Some([status |-> r, written |-> now])]
         /\ coroutines' = [coroutines EXCEPT ![c] =
                IF coroutines[c].next = Len(coroutines[c].results)
                THEN [@ EXCEPT !.pc = "checked", !.next = 1, !.results = << >>]
                ELSE [@ EXCEPT !.next = @ + 1]]
    /\ UNCHANGED << otherVars, clockVars, events, last_parallel_check, rounds >>

\* check_all_accounts_health, called on its own, returns.
CheckReturn ==
    /\ \E c \in Coroutines :
         /\ coroutines[c].pc = "checked"
         /\ coroutines[c].entry = "check_all_accounts_health"
         /\ coroutines' = [coroutines EXCEPT ![c] = IdleCoroutine]
    /\ UNCHANGED << otherVars, clockVars, events, last_parallel_check, cache, rounds >>

\* One pass of the first loop of get_best_account: the status of the next
\* account is read and the account listed or skipped. After the last account
\* the draw is made, or the second loop starts when nothing is listed.
BestRead ==
    /\ \E c \in Coroutines : \E a \in {coroutines[c].next} :
         /\ coroutines[c].pc = "checked"
         /\ coroutines[c].entry = "get_best_account"
         /\ \E seen \in {[coroutines[c].seen EXCEPT ![a] =
                            [kind |-> status_kind(cache, a, now),
                             weight |-> effective_weight(cache, a, now)]]} :
              IF a < Cardinality(ProbeAccounts)
              THEN coroutines' = [coroutines EXCEPT ![c] =
                                    [@ EXCEPT !.next = a + 1, !.seen = seen]]
              ELSE IF healthy_accounts(seen) = {}
              THEN coroutines' = [coroutines EXCEPT ![c] =
                                    [@ EXCEPT !.pc = "fallback", !.next = 1, !.seen = seen]]
              ELSE \E best \in best_accounts(seen) :
                     coroutines' = [coroutines EXCEPT ![c] =
                                      [IdleCoroutine EXCEPT !.returned = best,
                                                            !.seen = seen]]
    /\ UNCHANGED << otherVars, clockVars, events, last_parallel_check, cache, rounds >>

\* One pass of the second loop: a rate-limited account whose reset time has
\* passed is returned; after the last account the first account is.
BestFallback ==
    /\ \E c \in Coroutines : \E a \in {coroutines[c].next} :
         /\ coroutines[c].pc = "fallback"
         /\ coroutines' = [coroutines EXCEPT ![c] =
                IF reset_time_passed(cache, a, now)
                THEN [IdleCoroutine EXCEPT !.returned = a, !.seen = coroutines[c].seen]
                ELSE IF a < Cardinality(ProbeAccounts)
                THEN [@ EXCEPT !.next = a + 1]
                ELSE [IdleCoroutine EXCEPT !.returned = 1, !.seen = coroutines[c].seen]]
    /\ UNCHANGED << otherVars, clockVars, events, last_parallel_check, cache, rounds >>

NextProbes ==
    \/ ProbeTick
    \/ CheckEnter
    \/ Gathered
    \/ CacheWrite
    \/ CheckReturn
    \/ BestRead
    \/ BestFallback

SpecProbes == InitProbes /\ [][NextProbes]_vars

\* ------------------------------------------------- backend key rotation
NumKeys(m) == Cardinality(DOMAIN m.usage_counts)

\* min(d, key=d.get) over a dict with keys 0 .. n-1 restricted to S: the first
\* key of S with the smallest value.
first_min(d, S) ==
    CHOOSE i \in S : \A j \in S : d[i] < d[j] \/ (d[i] = d[j] /\ i <= j)

\* Variant of _get_round_robin that does not advance current_index.
get_round_robin_stuck(m) == [index |-> m.current_index, manager |-> m]

\* _get_round_robin: the index it returns and the manager it leaves.
get_round_robin(m) ==
    [index |-> m.current_index,
     manager |-> [m EXCEPT !.current_index = (m.current_index + 1) % NumKeys(m)]]

\* _get_least_used.
get_least_used(m) ==
    [index |-> first_min(m.usage_counts, DOMAIN m.usage_counts), manager |-> m]

cooldown_period == 60

\* _get_adaptive at time t.
get_adaptive(m, t) ==
    LET available_accounts == {i \in DOMAIN m.last_used : t - m.last_used[i] > cooldown_period}
    IN [index |-> IF available_accounts = {}
                  THEN first_min(m.last_used, DOMAIN m.last_used)
                  ELSE first_min(m.usage_counts, available_accounts),
        manager |-> m]

\* get_next_account at time t with at least one key: the index of the account
\* it returns and the manager with the usage statistics updated.
get_next_account(m, t) ==
    LET got == IF m.rotation_strategy = "round-robin" THEN get_round_robin(m)
               ELSE IF m.rotation_strategy = "least-used" THEN get_least_used(m)
               ELSE IF m.rotation_strategy = "adaptive" THEN get_adaptive(m, t)
               ELSE get_round_robin(m)
    IN [index |-> got.index,
        manager |-> [got.manager EXCEPT !.usage_counts[got.index] = @ + 1,
                                        !.last_used[got.index] = t]]

\* A backend process that has just started, with one to three keys and any
\* configured strategy name.
InitBackend ==
    /\ variant = "EnhancedAPIManager"
    /\ account_status = << create_default_status >>
    /\ current_index = 1
    /\ hist = << NoHist >>
    /\ last_health_check = StartTime
    /\ health_file = None
    /\ now = StartTime
    /\ ticks = 0
    /\ pc = "idle"
    /\ retries = 0
    /\ tried_accounts = {}
    /\ account = 0
    /\ account_index = 0
    /\ result = NoResult
    /\ runs = 0
    /\ calls = 0
    /\ events = 0
    /\ attempts = << >>
    /\ sleeps = << >>
    /\ reselects = 0
    /\ sel = NoSel
    /\ last_ev = NoEv
    /\ InitAccountManager
    /\ \E n \in KeyCounts : \E strategy \in RotationStrategyNames :
          api_account_manager = new_api_account_manager(n, strategy)
    /\ brainx = IdleBrainX
    /\ rotation_log = << >>
    /\ InitThreads

runLocals == << pc, retries, tried_accounts, account, account_index, result, runs >>

\* Another handler (the AutoX router) asks for an account; generate_response
\* holds the event loop while its request is out.
GetNextAccount ==
    /\ events < MaxEvents
    /\ brainx.pc # "call"
    /\ \E got \in {get_next_account(api_account_manager, now)} :
         /\ api_account_manager' = got.manager
         /\ rotation_log' = Append(rotation_log, got.index)
    /\ events' = events + 1
    /\ UNCHANGED << mgrVars, clockVars, runVars, histVars, probeVars, threadVars, brainx >>

\* generate_response is called: get_next_account and requests.post.
GenStart ==
    /\ brainx.pc \in {"idle", "done"}
    /\ calls < MaxCalls
    /\ \E got \in {get_next_account(api_account_manager, now)} :
         /\ api_account_manager' = got.manager
         /\ rotation_log' = Append(rotation_log, got.index)
         /\ brainx' = [IdleBrainX EXCEPT !.pc = "call", !.account = got.index]
    /\ calls' = calls + 1
    /\ UNCHANGED << mgrVars, clockVars, runLocals, histVars, probeVars, threadVars, events >>

\* The request is answered without a RequestException: the response is returned.
GenAnswer ==
    /\ brainx.pc = "call"
    /\ brainx' = [brainx EXCEPT !.pc = "done", !.result = "response"]
    /\ UNCHANGED << mgrVars, clockVars, runVars, histVars, probeVars, threadVars, events,
                    api_account_manager, rotation_log >>

\* The request raises a RequestException and more than one key is configured:
\* generate_response calls itself.
GenRetry ==
    /\ brainx.pc = "call"
    /\ NumKeys(api_account_manager) > 1
    /\ calls < MaxCalls
    /\ \E got \in {get_next_account(api_account_manager, now)} :
         /\ api_account_manager' = got.manager
         /\ rotation_log' = Append(rotation_log, got.index)
         /\ brainx' = [brainx EXCEPT !.account = got.index,
                                     !.failed = @ \cup {brainx.account},
                                     !.depth = @ + 1]
    /\ calls' = calls + 1
    /\ UNCHANGED << mgrVars, clockVars, runLocals, histVars, probeVars, threadVars, events >>

\* The request raises a RequestException and one key is configured: the
\* fallback answer is returned.
GenFallback ==
    /\ brainx.pc = "call"
    /\ NumKeys(api_account_manager) <= 1
    /\ brainx' = [brainx EXCEPT !.pc = "done", !.result = "fallback",
                                !.failed = @ \cup {brainx.account}]
    /\ UNCHANGED << mgrVars, clockVars, runVars, histVars, probeVars, threadVars, events,
                    api_account_manager, rotation_log >>

NextBackend ==
    \/ ProbeTick
    \/ GetNextAccount
    \/ GenStart
    \/ GenAnswer
    \/ GenRetry
    \/ GenFallback

SpecBackend == InitBackend /\ [][NextBackend]_vars

\* ------------------------------------------------- threads in run()
ThreadOps == {"success", "failure"}

\* The counter a recording operation increments first: total_requests in
\* mark_success, total_failures in mark_failure.
CounterOf(op) == IF op = "success" THEN "total_requests" ELSE "total_failures"

\* status[counter] += 1 as two steps: the value stored is the value loaded
\* earlier plus one, whatever the counter holds by now.
incremented(st, i, op, loaded) == loaded + 1

\* The status map after the rest of the recording operation at time t.
recorded_by_thread(st, i, op, t) ==
    IF op = "success"
    THEN (IF Enhanced THEN mark_success(st, i, 0, t) ELSE AutoX_mark_success(st, i, t))
    ELSE (IF Enhanced THEN mark_failure(st, i, FALSE, "api_error", t)
          ELSE AutoX_mark_failure(st, i, FALSE, t))

\* A thread's run() got its response and enters mark_success or mark_failure
\* for the account it used: it loads the counter.
ThreadLoad ==
    /\ events < MaxEvents
    /\ \E th \in Threads : \E i \in Accounts : \E op \in ThreadOps :
         /\ threads[th].pc \in {"idle", "done"}
         /\ threads' = [threads EXCEPT ![th] =
                          [pc |-> "loaded", op |-> op, index |-> i,
                           loaded |-> account_status[i][CounterOf(op)]]]
    /\ events' = events + 1
    /\ UNCHANGED << mgrVars, clockVars, runVars, histVars, probeVars, backendVars, tally >>

\* The thread stores the counter and runs the rest of the operation.
ThreadStore ==
    /\ \E th \in Threads :
         /\ threads[th].pc = "loaded"
         /\ \E i \in {threads[th].index} : \E op \in {threads[th].op} :
              /\ account_status'
                    = [recorded_by_thread(account_status, i, op, now) EXCEPT
                         ![i][CounterOf(op)]
                            = incremented(account_status, i, op, threads[th].loaded)]
              /\ tally' = [tally EXCEPT
                             ![i].successes = IF op = "success" THEN @ + 1 ELSE @,
                             ![i].failures = IF op = "failure" THEN @ + 1 ELSE @]
         /\ threads' = [threads EXCEPT ![th].pc = "done"]
    /\ UNCHANGED << variant, current_index, last_health_check, health_file, clockVars,
                    runVars, histVars, events, probeVars, backendVars >>

NextThreads ==
    \/ Tick
    \/ ThreadLoad
    \/ ThreadStore

SpecThreads == Init /\ [][NextThreads]_vars

\* ------------------------------------------------------------- claims
AttemptAccounts(k) == {attempts[j].account : j \in 1 .. k}
Backoffs == SelectSeq(sleeps, LAMBDA s : s.why = "backoff")
MaxScore(S, scores) == CHOOSE m \in {scores[i] : i \in S} : \A j \in S : scores[j] <= m

\* C1: a run() issues at most RETRY_LIMIT outbound calls and makes at most
\* as many consecutive re-selections (switch_account then continue, without an
\* outbound call in between) as there are accounts.
C1_BoundedReselection ==
    /\ Len(attempts) + (IF pc = "call" THEN 1 ELSE 0) <= RETRY_LIMIT
    /\ reselects <= NumAccounts

\* C2: when at least one account is available, switch_account sets
\* current_index to an available account.
C2_SelectsAvailable ==
    (sel.strategy # "none" /\ sel.avail # {}) =>
        (sel.index \in sel.avail /\ current_index \in Accounts)

C2_Witness ==
    /\ sel.strategy # "none"
    /\ sel.avail # {}
    /\ sel.avail # Accounts
    /\ sel.index \in sel.avail

\* C3: in both managers the health_score of every account is within [0, 100]
\* after every operation.
C3_HealthInRange ==
    \A i \in Accounts :
        /\ 0 <= account_status[i].health_score
        /\ account_status[i].health_score <= 100 * HealthUnit

C3_Witness ==
    /\ last_ev.op = "general"
    /\ last_ev.before.health_score < HEALTH_PENALTY_RATE * HealthUnit
    /\ last_ev.after.health_score = 0
    /\ \E i \in Accounts : account_status[i].health_score = 100 * HealthUnit

\* C4: in EnhancedAPIManager, once an account has had MAX_CONSECUTIVE_FAILURES
\* non-rate-limit failures in a row, it is blacklisted by the fifth of them
\* and is unavailable at every time before that blacklisted_until, as long as
\* no success is recorded on it.
C4_UnavailableAfterFive ==
    Enhanced =>
        \A i \in Accounts :
            IsSet(hist[i].fifth) =>
                /\ IsSet(hist[i].fifth[1])
                /\ now < hist[i].fifth[1][1] => ~is_account_available(account_status, i, now)

C4_Witness ==
    /\ Enhanced
    /\ \E i \in Accounts :
         /\ IsSet(hist[i].fifth)
         /\ IsSet(hist[i].fifth[1])
         /\ account_status[i].last_used[1] < now
         /\ now < hist[i].fifth[1][1]
         /\ ~is_account_available(account_status, i, now)

\* C5: a run() that ends without a successful attempt returns the failure
\* report, with an error message, retry_after = 60 and accounts_tried equal to
\* the set of accounts it called; a run() returns nothing else but the
\* decoded body of a successful attempt.
C5_FailureReport ==
    /\ pc = "done" => result.kind \in {"ok", "report"}
    /\ pc # "done" => result.kind = "none"
    /\ result.kind = "ok" => attempts[Len(attempts)].kind = "success"
    /\ result.kind = "report" =>
          /\ result.error # ""
          /\ result.retry_after = 60
          /\ result.accounts_tried = AttemptAccounts(Len(attempts))
          /\ \A k \in 1 .. Len(attempts) : attempts[k].kind # "success"

C5_Witness ==
    /\ result.kind = "report"
    /\ Len(attempts) = RETRY_LIMIT
    /\ Cardinality(result.accounts_tried) = 2
    /\ \E k \in 1 .. Len(attempts) : attempts[k].kind = "auth"
    /\ \E k \in 1 .. Len(attempts) : attempts[k].kind = "connection"

Retryable == {"rate_limit", "timeout", "api_error", "connection"}

\* The account of attempt k + 1, when it has been issued.
NextAttemptDiffers(k) ==
    /\ k < Len(attempts) => attempts[k + 1].account # attempts[k].account
    /\ (k = Len(attempts) /\ pc = "call") => account # attempts[k].account

\* C6 as stated: in a pool of at least two accounts, the attempt after a
\* rate-limit, timeout, API or connection failure is on a different account.
C6_NextAttemptOnOtherAccount ==
    NumAccounts >= 2 =>
        \A k \in 1 .. Len(attempts) :
            attempts[k].kind \in Retryable => NextAttemptDiffers(k)

\* C6 amended: ... is on a different account as long as some account of the
\* pool has not been tried in this run() when the attempt fails.
C6_NextAttemptOnOtherAccountWhileUntried ==
    NumAccounts >= 2 =>
        \A k \in 1 .. Len(attempts) :
            (attempts[k].kind \in Retryable
             /\ Cardinality(AttemptAccounts(k)) < NumAccounts) => NextAttemptDiffers(k)

C6_Witness ==
    /\ NumAccounts >= 2
    /\ Len(attempts) >= 2
    /\ attempts[1].kind \in Retryable
    /\ attempts[2].account # attempts[1].account
    /\ sel.avail = Accounts

\* C7: with three accounts in default status, when the first attempt of a
\* run() is answered 429, that account's rate_limited_until is the time of the
\* answer plus 22.5 minutes (cooldown_multiplier 1.5) and the next attempt of
\* the run() is on another account.
C7_FirstRateLimit ==
    (NumAccounts = 3 /\ runs = 1 /\ Len(attempts) >= 1 /\ attempts[1].kind = "rate_limit") =>
        /\ Len(attempts) = 1 =>
              /\ account_status[attempts[1].account].cooldown_multiplier = 1500
              /\ account_status[attempts[1].account].rate_limited_until
                    = Some(attempts[1].at + 1350)
        /\ NextAttemptDiffers(1)

C7_Witness ==
    /\ NumAccounts = 3
    /\ runs = 1
    /\ Len(attempts) = 1
    /\ attempts[1].kind = "rate_limit"
    /\ pc = "call"
    /\ account # attempts[1].account
    /\ account_status[attempts[1].account].rate_limited_until = Some(now + 1350)

\* C8: in EnhancedAPIManager, when the highest health_score among the
\* available accounts is above MIN_HEALTH_FOR_PRIMARY, switch_account selects
\* an available account with that score.
C8_PrimaryPicksHighest ==
    (Enhanced /\ sel.strategy # "none" /\ sel.avail # {}
     /\ MaxScore(sel.avail, sel.scores) > MIN_HEALTH_FOR_PRIMARY * HealthUnit) =>
        /\ sel.index \in sel.avail
        /\ sel.scores[sel.index] = MaxScore(sel.avail, sel.scores)

C8_Witness ==
    /\ Enhanced
    /\ sel.strategy = "primary"
    /\ \E i \in sel.avail : i < sel.index /\ sel.scores[i] < sel.scores[sel.index]
    /\ IsSet(account_status[sel.index].last_used)

\* C9: mark_success on an account whose blacklisted_until is set clears it,
\* leaves consecutive_failures at 0 and raises the health_score (or leaves it
\* at 100).
C9_SuccessClearsBlacklist ==
    (last_ev.op = "success" /\ IsSet(last_ev.before.blacklisted_until)) =>
        /\ last_ev.after.blacklisted_until = None
        /\ last_ev.after.consecutive_failures = 0
        /\ \/ last_ev.after.health_score > last_ev.before.health_score
           \/ last_ev.after.health_score = 100 * HealthUnit

C9_Witness ==
    /\ last_ev.op = "success"
    /\ IsSet(last_ev.before.blacklisted_until)
    /\ last_ev.before.blacklisted_until[1] > now
    /\ last_ev.after.health_score > last_ev.before.health_score
    /\ account_status[last_ev.account].blacklisted_until = None

\* C10: the k-th failed attempt of a run() with k < RETRY_LIMIT is followed by
\* one backoff sleep of BACKOFF_BASE * 2^(k-1) (BACKOFF_BASE for k = 1), and
\* the RETRY_LIMIT-th by none.
C10_Backoff ==
    /\ Len(Backoffs) = Min(retries, RETRY_LIMIT - 1)
    /\ \A k \in 1 .. Len(Backoffs) :
          /\ Backoffs[k].after = k
          /\ k = 1 => Backoffs[k].ms = BACKOFF_BASE
          /\ k > 1 => Backoffs[k].ms = BACKOFF_BASE * (2 ^ (k - 1))

C10_Witness ==
    /\ retries = RETRY_LIMIT
    /\ result.kind = "report"
    /\ Len(Backoffs) = 2
    /\ Backoffs[2].ms = 200
    /\ \E k \in 1 .. Len(sleeps) : sleeps[k].why = "connection"

\* C12: with a pool of one account, a run() all of whose calls fail with a
\* non-rate-limit error issues exactly RETRY_LIMIT calls, all on that account,
\* never re-selects, and returns the failure report naming exactly that account.
C12_SingleAccountExhausts ==
    (NumAccounts = 1
     /\ \A k \in 1 .. Len(attempts) : attempts[k].kind \notin {"success", "rate_limit"}) =>
        /\ reselects = 0
        /\ Len(attempts) <= RETRY_LIMIT
        /\ \A k \in 1 .. Len(attempts) : attempts[k].account = 1
        /\ pc = "done" =>
              /\ Len(attempts) = RETRY_LIMIT
              /\ result = [kind |-> "report", error |-> "All API accounts failed",
                           retry_after |-> 60, accounts_tried |-> {1}]

C12_Witness ==
    /\ NumAccounts = 1
    /\ pc = "done"
    /\ Len(attempts) = 3
    /\ \A k \in 1 .. 3 : attempts[k].kind \in {"api_error", "timeout", "connection"}
    /\ result.kind = "report"
    /\ result.accounts_tried = {1}

Status2xx == {"200", "201"}

\* C13: every outbound call answered with a 2xx status is recorded as a
\* success on its account and ends the run() with the decoded body.
C13_Every2xxIsSuccess ==
    \A k \in 1 .. Len(attempts) :
        attempts[k].outcome \in Status2xx =>
            /\ attempts[k].kind = "success"
            /\ k = Len(attempts)
            /\ pc = "done"
            /\ result.kind = "ok"

\* C14: in both managers a 401 or 403 answer takes the auth branch, is never
\* classified as a rate limit and sets no rate-limit cooldown.
C14_AuthIsNeverRateLimit ==
    \A k \in 1 .. Len(attempts) :
        attempts[k].outcome \in {"401", "403"} =>
            /\ attempts[k].kind = "auth"
            /\ k = Len(attempts) =>
                  last_ev.after.rate_limited_until = last_ev.before.rate_limited_until

\* C18: within one run() a call is issued on an account already tried only
\* when every account of the pool has been tried.
C18_NoRepeatWhileUntried ==
    /\ \A k \in 2 .. Len(attempts) :
          attempts[k].account \in AttemptAccounts(k - 1) =>
              AttemptAccounts(k - 1) = Accounts
    /\ (pc = "call" /\ account \in AttemptAccounts(Len(attempts))) =>
          AttemptAccounts(Len(attempts)) = Accounts

C18_Witness ==
    /\ NumAccounts = 2
    /\ Len(attempts) = 3
    /\ attempts[1].account # attempts[2].account
    /\ attempts[3].account = attempts[2].account
    /\ \E i \in Accounts : ~Available(account_status, i, now)

\* C20: when switch_account returns, the last_used of the account it selected
\* is the time of the selection.
C20_SelectionStampsLastUsed ==
    sel.strategy # "none" => sel.last_used = Some(sel.at)

DefaultStatus(n) == [i \in 1 .. n |-> create_default_status]

C15_CooldownMultiplierRange ==
    /\ \A i \in Accounts :
          /\ 1000 <= account_status[i].cooldown_multiplier
          /\ account_status[i].cooldown_multiplier <= 5000
    /\ last_ev.op \in {"mark_rate_limited", "rate_limit"} =>
          last_ev.after.cooldown_multiplier
             = Min(5000, (last_ev.before.cooldown_multiplier * 1500) \div 1000)
    /\ last_ev.op = "success" =>
          last_ev.after.cooldown_multiplier
             = Max(1000, (last_ev.before.cooldown_multiplier * 800) \div 1000)

C15_Witness ==
    /\ last_ev.op \in {"mark_rate_limited", "rate_limit"}
    /\ last_ev.before.cooldown_multiplier = 3375
    /\ last_ev.after.cooldown_multiplier = 5000
    /\ \E i \in Accounts : account_status[i].cooldown_multiplier = 1000

\* C16: a load that raises leaves every account in the default status, and a
\* save that fails returns False and leaves the in-memory status as it was.
C16_PersistenceFailuresNonFatal ==
    /\ (last_ev.op = "load" /\ IsSet(last_ev.file) /\ load_raises(last_ev.file)) =>
          account_status = DefaultStatus(NumAccounts)
    /\ (last_ev.op = "save" /\ ~last_ev.ok) => account_status = last_ev.memory

C16_Witness ==
    /\ last_ev.op = "load"
    /\ NumAccounts = 2
    /\ IsSet(last_ev.file)
    /\ last_ev.file[1].decodable
    /\ last_ev.file[1].entries[1].object
    /\ last_ev.file[1].entries[1].status.total_failures > 0
    /\ ~last_ev.file[1].entries[2].object
    /\ last_ev.memory # DefaultStatus(2)
    /\ account_status = DefaultStatus(2)

\* C17: current_index is a valid index of the accounts list in every state,
\* after initialisation, every switch_account and every rotation of the
\* rotation thread.
C17_CurrentIndexValid == current_index \in Accounts

C17_Witness ==
    /\ last_ev.op = "rotate"
    /\ last_ev.strategy = "adaptive"
    /\ pc = "read"
    /\ current_index # account
    /\ current_index \in Accounts

\* C19: with a rotation thread running beside run(), the status update of
\* every attempt goes to the account whose credential and id the attempt's
\* call used.
C19_UpdateOnAccountCalled ==
    /\ \A k \in 1 .. Len(attempts) : attempts[k].marked = attempts[k].account
    /\ pc = "call" => account_index = account

\* C24: an account that has seen nothing but rate-limit failures (and the
\* expiry of its cooldowns) since its default status has no blacklisted_until.
C24_RateLimitsNeverBlacklist ==
    Enhanced =>
        \A i \in Accounts :
            (/\ account_status[i].total_requests = 0
             /\ \A e \in ErrorTypes \ {"rate_limit"} : account_status[i].error_types[e] = 0)
            => account_status[i].blacklisted_until = None

FailedAttemptKinds == {"rate_limit", "auth", "api_error", "timeout", "connection"}

\* C25: every failed attempt run() records adds exactly 1 to the account's
\* consecutive_failures, exactly 1 to its total_failures and, where error types
\* are counted, exactly 1 to the error-type counts in all.
C25_FailureCountsByOne ==
    last_ev.op \in FailedAttemptKinds =>
        /\ last_ev.after.consecutive_failures = last_ev.before.consecutive_failures + 1
        /\ last_ev.after.total_failures = last_ev.before.total_failures + 1
        /\ Enhanced =>
              \E e \in ErrorTypes :
                 /\ last_ev.after.error_types[e] = last_ev.before.error_types[e] + 1
                 /\ \A f \in ErrorTypes \ {e} :
                       last_ev.after.error_types[f] = last_ev.before.error_types[f]

\* The update left the blacklist alone and the score was high enough for no
\* clamp at 0 to apply.
PlainPenalty ==
    /\ last_ev.after.blacklisted_until = last_ev.before.blacklisted_until
    /\ last_ev.before.health_score >= 50 * HealthUnit

\* C26: a rate-limit failure recorded by run() lowers the health_score of the
\* account by exactly 15 points.
C26_RateLimitCostsFifteen ==
    (last_ev.op = "rate_limit" /\ PlainPenalty) =>
        last_ev.after.health_score = last_ev.before.health_score - 15 * HealthUnit

\* C27: in both managers an auth failure recorded by run() lowers the
\* health_score by exactly 20 points and an api_error, timeout or connection
\* failure by exactly 10.
C27_AuthTwentyOthersTen ==
    /\ (last_ev.op = "auth" /\ PlainPenalty) =>
          last_ev.after.health_score = last_ev.before.health_score - 20 * HealthUnit
    /\ (last_ev.op \in {"api_error", "timeout", "connection"} /\ PlainPenalty) =>
          last_ev.after.health_score = last_ev.before.health_score - 10 * HealthUnit

\* C28: a failure recorded on an account whose last_used is set first decays
\* the health_score by the time since that last_used and then subtracts the
\* penalty.
C28_DecayByIdleTime ==
    (/\ Enhanced
     /\ last_ev.op \in {"auth", "api_error", "timeout", "connection"}
     /\ IsSet(last_ev.before.last_used)
     /\ last_ev.after.blacklisted_until = last_ev.before.blacklisted_until) =>
        last_ev.after.health_score
           = clamp_health(
                 (last_ev.before.health_score
                    * decay_factor(last_ev.after.last_used[1] - last_ev.before.last_used[1]))
                 \div 10000
                 - (IF last_ev.op = "auth" THEN 20 ELSE 10) * HealthUnit)

\* The last step was a switch_account whose record sel still describes the
\* present status map.
JustSwitched == last_ev.op = "switch_account" /\ sel.at = now

\* C21: when the least-recently-used strategy returns, the account it returns
\* has a null last_used if some available account has one, and otherwise no
\* available account has a smaller last_used.
C21_LeastRecentPrefersNeverUsed ==
    (JustSwitched /\ sel.strategy = "least_recent") =>
        IF \E i \in sel.avail : ~IsSet(account_status[i].last_used)
        THEN ~IsSet(account_status[sel.index].last_used)
        ELSE \A i \in sel.avail :
                account_status[sel.index].last_used[1] <= account_status[i].last_used[1]

\* The time from which account i is available: the later of its two windows.
AvailableFrom(st, i) ==
    Max(IF IsSet(st[i].rate_limited_until) THEN st[i].rate_limited_until[1] ELSE 0,
        IF IsSet(st[i].blacklisted_until) THEN st[i].blacklisted_until[1] ELSE 0)

\* The earliest end of a window of account i.
FirstExpiry(st, i) ==
    IF IsSet(st[i].rate_limited_until) /\ IsSet(st[i].blacklisted_until)
    THEN Min(st[i].rate_limited_until[1], st[i].blacklisted_until[1])
    ELSE AvailableFrom(st, i)

\* C22: when no account is available, no account becomes available strictly
\* earlier than the account switch_account returns.
C22_ForcedWaitIsMinimal ==
    (JustSwitched /\ sel.strategy = "earliest_expiry") =>
        \A i \in Accounts :
           AvailableFrom(account_status, i) >= AvailableFrom(account_status, sel.index)

\* C23: in each strategy, among the accounts that tie with the returned one
\* (equal health, equal or both-null last_used, equal earliest expiry) the
\* returned one has the lowest index.
C23_TiesGoToLowestIndex ==
    JustSwitched =>
        /\ sel.strategy = "primary" =>
              \A i \in sel.avail :
                 sel.scores[i] = sel.scores[sel.index] => sel.index <= i
        /\ sel.strategy = "least_recent" =>
              \A i \in sel.avail :
                 account_status[i].last_used = account_status[sel.index].last_used
                 => sel.index <= i
        /\ sel.strategy = "earliest_expiry" =>
              \A i \in Accounts :
                 FirstExpiry(account_status, i) = FirstExpiry(account_status, sel.index)
                 => sel.index <= i

\* C30: a health check that ran leaves no rate_limited_until or
\* blacklisted_until at or before now and keeps every window that ends after
\* now; a switch_account whose health check was skipped leaves the status map
\* as it was.
C30_HealthCheckClearsElapsedWindows ==
    (Enhanced /\ last_ev.op = "switch_account") =>
        IF last_ev.checked
        THEN \A i \in Accounts :
                /\ \A w \in {last_ev.after[i].rate_limited_until,
                             last_ev.after[i].blacklisted_until} :
                      IsSet(w) => w[1] > last_ev.at
                /\ (/\ IsSet(last_ev.before[i].rate_limited_until)
                    /\ last_ev.before[i].rate_limited_until[1] > last_ev.at)
                   => last_ev.after[i].rate_limited_until
                         = last_ev.before[i].rate_limited_until
                /\ (/\ IsSet(last_ev.before[i].blacklisted_until)
                    /\ last_ev.before[i].blacklisted_until[1] > last_ev.at)
                   => last_ev.after[i].blacklisted_until
                         = last_ev.before[i].blacklisted_until
        ELSE last_ev.after = last_ev.before

\* A health check ran on a pool with an elapsed rate limit, an elapsed
\* blacklist and a window still running, and a later switch_account skipped it.
C30_Witness ==
    /\ Enhanced
    /\ last_ev.op = "switch_account"
    /\ last_ev.checked
    /\ \E i, j, k \in Accounts :
         /\ IsSet(last_ev.before[i].rate_limited_until)
         /\ ~IsSet(last_ev.after[i].rate_limited_until)
         /\ IsSet(last_ev.before[j].blacklisted_until)
         /\ ~IsSet(last_ev.after[j].blacklisted_until)
         /\ IsSet(last_ev.after[k].rate_limited_until)
         /\ last_ev.after[k].rate_limited_until[1] > last_ev.at

\* C29: any two rounds of probes start at least check_interval apart, whatever
\* the number of coroutines calling in while a round awaits its probes.
C29_RoundsAtLeastIntervalApart ==
    \A i, j \in 1 .. Len(rounds) :
        i < j => rounds[j] - rounds[i] >= check_interval

\* A second round is awaiting its probes and another coroutine that called in
\* since that round started was turned away by the guard.
C29_Witness ==
    /\ Len(rounds) >= 2
    /\ \E c, d \in Coroutines :
         /\ c # d
         /\ coroutines[c].pc = "gather"
         /\ coroutines[c].current_time = rounds[Len(rounds)]
         /\ coroutines[d].pc = "checked"
         /\ coroutines[d].skipped
         /\ coroutines[d].current_time > rounds[Len(rounds)]

\* C35: in EnhancedAPIManager an account never has success_streak > 0 and
\* consecutive_failures > 0 at the same time, and its failures field equals
\* consecutive_failures.
C35_StreakAndFailuresExclusive ==
    Enhanced =>
        \A i \in Accounts :
            /\ ~(account_status[i].success_streak > 0
                 /\ account_status[i].consecutive_failures > 0)
            /\ account_status[i].failures = account_status[i].consecutive_failures

\* A rate limit was marked on an account that was on a success streak.
C35_Witness ==
    /\ Enhanced
    /\ last_ev.op = "mark_rate_limited"
    /\ last_ev.before.success_streak > 0
    /\ last_ev.after.consecutive_failures > 0
    /\ last_ev.after.success_streak = 0
    /\ last_ev.after.failures = last_ev.after.consecutive_failures

\* The value a stored timestamp ought to load as: the instant it denotes, None
\* if it is absent or no ISO date.
ExpectedTimestamp(o) == IF IsSet(o) /\ o[1].valid THEN Some(o[1].iso) ELSE None

C33_CallsTargetAvailableAccount ==
    (/\ pc = "call"
     /\ \E i \in Accounts : Available(account_status, i, now))
    => Available(account_status, account, now)

\* C36: under round-robin, any n consecutive get_next_account calls return each
\* of the n indices, current_index stays within 0 .. n-1 and the usage counts
\* add up to the number of calls.
C36_RoundRobinIsFair ==
    api_account_manager.rotation_strategy = "round-robin" =>
        LET n == NumKeys(api_account_manager)
        IN /\ \A k \in 1 .. Len(rotation_log) - n + 1 :
                 {rotation_log[j] : j \in k .. k + n - 1} = 0 .. n - 1
           /\ api_account_manager.current_index \in 0 .. n - 1
           /\ SumSeq([i \in 1 .. n |-> api_account_manager.usage_counts[i - 1]])
                 = Len(rotation_log)

\* Three keys in round-robin, five accounts handed out, some of them to other
\* handlers and some to a generate_response that is retrying.
C36_Witness ==
    /\ api_account_manager.rotation_strategy = "round-robin"
    /\ NumKeys(api_account_manager) = 3
    /\ Len(rotation_log) >= 5
    /\ brainx.depth >= 1
    /\ events >= 1
    /\ api_account_manager.usage_counts[0] = 2
    /\ api_account_manager.usage_counts[2] = 1

\* C37: once the call of every configured account has failed in a request,
\* generate_response makes no further outbound call for it.
C37_StopsOnceEveryAccountFailed ==
    brainx.pc = "call" => brainx.failed # DOMAIN api_account_manager.usage_counts

\* C34: when every thread has returned from its recording operation, each
\* account's total_requests is the number of successes recorded on it and its
\* total_failures the number of failure increments applied to it.
C34_NoLostUpdate ==
    (\A th \in Threads : threads[th].pc # "loaded") =>
        \A i \in Accounts :
            /\ account_status[i].total_requests = tally[i].successes
            /\ account_status[i].total_failures = tally[i].failures

\* C31: an account get_best_account returns was not read as rate_limited or
\* error by that call when the call read some account as healthy or as having
\* no current status.
C31_BestAccountIsNotKnownBad ==
    \A c \in Coroutines :
        (/\ coroutines[c].returned # 0
         /\ \E a \in ProbeAccounts : coroutines[c].seen[a].kind \in {"healthy", "unknown"})
        => coroutines[c].seen[coroutines[c].returned].kind \in {"healthy", "unknown"}

\* A call returned an account it read as healthy after reading the other as
\* rate-limited or failing.
C31_Witness ==
    \E c \in Coroutines : \E a, b \in ProbeAccounts :
        /\ coroutines[c].returned = a
        /\ coroutines[c].seen[a].kind = "healthy"
        /\ coroutines[c].seen[b].kind \in {"rate_limited", "error"}

====
